---- MODULE Spec2Model ----
(***************************************************************************)
(* Level-definition resolution (world/data.rs), level loading, the game   *)
(* state machine, the level builder (world/builder.rs) and the stair       *)
(* prefabs (world/prefabs.rs) of lunacid-clone.                            *)
(*                                                                         *)
(* Lengths (f32 in the source) are integers in hundredths of a unit:       *)
(* 4.0 is 400, 0.5 is 50.  A character is a one-character string, a row   *)
(* (a Rust String) is a sequence of characters, so row.chars().count() is  *)
(* Len(row).  Option<T> is a sequence of at most one element.  A           *)
(* HashMap<char, T> is a function whose DOMAIN is its key set.             *)
(***************************************************************************)
EXTENDS Integers, Sequences, FiniteSets, TLC

VARIABLES
    raw,               \* LevelDefinitionRaw handed to from_raw
    palette_registry,  \* PaletteRegistry handed to from_raw
    result,            \* Result<LevelDefinition, String> of from_raw
    probe,             \* last get_geometry / get_ambient / get_ceiling query
    pc                 \* position of the resolution run

resolveVars == <<raw, palette_registry, result, probe, pc>>

VARIABLES
    levels_dir,        \* assets/data/levels as load_level_definitions finds it
    level_registry,    \* the LevelRegistry resource, None until inserted
    current_level,     \* the CurrentLevel resource, None until inserted
    palettes_dir,      \* assets/data/palettes as load_palette_files finds it
    palette_resource   \* the PaletteRegistry resource, None until inserted

loadVars == <<levels_dir, level_registry, current_level, palettes_dir, palette_resource>>

VARIABLES
    game_state,        \* State<GameState>
    next_state,        \* NextState<GameState>: None, or the pending state
    world,             \* the entities alive, each with its marker components
    builds,            \* how many times OnEnter(InGame) has run
    enemy_files,       \* the enemy types assets/data/enemies defines
    enemy_registry,    \* EnemyRegistry: the enemy types loaded
    death_events       \* the entities with an unread DeathEvent

gameVars == <<game_state, next_state, world, builds, enemy_files, enemy_registry, death_events>>

VARIABLES
    builder_level,     \* the LevelDefinition handed to build_level_from_data
    builder_registry,  \* the EnemyRegistry handed to build_level_from_data
    prefab,            \* the PrefabInstance handed to spawn_prefab
    spawned            \* what the run has spawned through commands, in order

buildVars == <<builder_level, builder_registry, prefab, spawned>>

VARIABLES
    health,            \* Health.current of each entity that has a Health component
    dead,              \* the entities that carry the Dead marker
    damage_events,     \* Events<DamageEvent> and how far apply_damage has read
    death_log,         \* Events<DeathEvent> and how far check_deaths has read
    ran,               \* the systems that have run in the current frame
    input,             \* the keys and buttons of the current frame
    enemy              \* the components of one enemy, None once it is despawned

combatVars == <<health, dead, damage_events, death_log, ran, input, enemy>>

vars == <<resolveVars, loadVars, gameVars, buildVars, combatVars>>

(***************************************************************************)
(* Bounds of the model.                                                    *)
(***************************************************************************)
MaxW == 2          \* longest authored row, in characters
MaxH == 2          \* most authored rows of a grid
MaxFiles == 2      \* most entries of the levels directory
MaxBuilds == 2     \* most entries into the InGame state
NSeeds == 12       \* number of grid fillings tried per shape

(***************************************************************************)
(* Option<T>                                                               *)
(***************************************************************************)
None == <<>>
Some(v) == <<v>>
IsSome(o) == Len(o) = 1
Unwrap(o) == o[1]
UnwrapOr(o, d) == IF IsSome(o) THEN o[1] ELSE d

\* HashMap::get
MapGet(m, k) == IF k \in DOMAIN m THEN Some(m[k]) ELSE None

\* Resize with the padding left out
M_Resize_NoPad(s, n, fill) == [i \in 1..(IF n <= Len(s) THEN n ELSE Len(s)) |-> s[i]]

\* Vec::resize(n, fill): truncates or extends with clones of fill
Resize(s, n, fill) == [i \in 1..n |-> IF i <= Len(s) THEN s[i] ELSE fill]

Max(S) == CHOOSE m \in S : \A n \in S : n <= m

\* rows.iter().map(|row| row.chars().count()).max().unwrap_or(0)
GridWidth(rows) == IF rows = <<>> THEN 0 ELSE Max({Len(rows[i]) : i \in 1..Len(rows)})

\* rows.len()
GridHeight(rows) == Len(rows)

(***************************************************************************)
(* GeometryKind                                                            *)
(***************************************************************************)
GeometryKinds == {"Floor", "Wall", "Pillar", "Doorway", "Void"}

\* has_floor without the doorways
M_has_floor_NoDoorway(kind) == kind \in {"Floor", "Pillar"}

has_floor(kind) == kind \in {"Floor", "Pillar", "Doorway"}

is_solid(kind) == kind = "Wall"

(***************************************************************************)
(* Hard-coded defaults of the resolved tiles.                              *)
(***************************************************************************)
VoidHeight == 400
VoidFloorDepth == 50

\* impl Default for ResolvedGeometryTile
DefaultGeometryTile ==
    [kind |-> "Void", material |-> "stone", height |-> VoidHeight, floor_depth |-> VoidFloorDepth]

\* impl Default for ResolvedAmbientTile (derived)
DefaultAmbientTile == [lights |-> <<>>, particles |-> <<>>, audio |-> <<>>]

\* static DEFAULT of get_geometry: the material is String::new()
OutOfBoundsGeometryTile ==
    [kind |-> "Void", material |-> "", height |-> VoidHeight, floor_depth |-> VoidFloorDepth]

(***************************************************************************)
(* PaletteRegistry lookups.                                                *)
(***************************************************************************)
get_geometry_palette(reg, filename) == MapGet(reg.geometry, filename)
get_ambient_palette(reg, filename) == MapGet(reg.ambient, filename)
get_monster_palette(reg, filename) == MapGet(reg.monster, filename)
get_ceiling_palette(reg, filename) == MapGet(reg.ceiling, filename)

\* a named catalog that is not found gives an empty catalog
M_EffectivePalette_NoFallback(file, found, inline) ==
    IF IsSome(file)
    THEN (IF IsSome(found) THEN Unwrap(found) ELSE <<>>)
    ELSE inline

\* the entries of the inline catalog added to a found external catalog
M_EffectivePalette_Merged(file, found, inline) ==
    IF IsSome(file)
    THEN (IF IsSome(found)
          THEN [c \in DOMAIN Unwrap(found) \cup DOMAIN inline |->
                   IF c \in DOMAIN Unwrap(found) THEN Unwrap(found)[c] ELSE inline[c]]
          ELSE inline)
    ELSE inline

\* "prefer external file, fallback to inline": file is Option<String>,
\* found is the registry lookup of the named file, inline the level's own
EffectivePalette(file, found, inline) ==
    IF IsSome(file)
    THEN (IF IsSome(found) THEN Unwrap(found) ELSE inline)
    ELSE inline

GeometryPaletteOf(r, reg) ==
    EffectivePalette(r.geometry_palette_file,
        IF IsSome(r.geometry_palette_file)
        THEN get_geometry_palette(reg, Unwrap(r.geometry_palette_file)) ELSE None,
        r.geometry_palette)

AmbientPaletteOf(r, reg) ==
    EffectivePalette(r.ambient_palette_file,
        IF IsSome(r.ambient_palette_file)
        THEN get_ambient_palette(reg, Unwrap(r.ambient_palette_file)) ELSE None,
        r.ambient_palette)

MonsterPaletteOf(r, reg) ==
    EffectivePalette(r.monster_palette_file,
        IF IsSome(r.monster_palette_file)
        THEN get_monster_palette(reg, Unwrap(r.monster_palette_file)) ELSE None,
        r.monster_palette)

CeilingPaletteOf(r, reg) ==
    EffectivePalette(r.ceiling_palette_file,
        IF IsSome(r.ceiling_palette_file)
        THEN get_ceiling_palette(reg, Unwrap(r.ceiling_palette_file)) ELSE None,
        r.ceiling_palette)

\* no character taken for blank: '.' and ' ' go to the catalog
M_IsBlank_Never(c) == FALSE

(***************************************************************************)
(* from_raw: resolution of one character of each layer.                    *)
(***************************************************************************)
IsBlank(c) == c = "." \/ c = " "

\* an unknown geometry character taken for a floor
M_ResolveGeometryChar_UnknownIsFloor(c, palette, r) ==
    IF c \in DOMAIN palette
    THEN [kind |-> palette[c].kind,
          material |-> UnwrapOr(palette[c].material, "stone"),
          height |-> UnwrapOr(palette[c].height, r.default_wall_height),
          floor_depth |-> UnwrapOr(palette[c].floor_depth, r.default_floor_depth)]
    ELSE [kind |-> "Floor", material |-> "stone", height |-> 400, floor_depth |-> 50]

ResolveGeometryChar(c, palette, r) ==
    IF c \in DOMAIN palette
    THEN [kind |-> palette[c].kind,
          material |-> UnwrapOr(palette[c].material, "stone"),
          height |-> UnwrapOr(palette[c].height, r.default_wall_height),
          floor_depth |-> UnwrapOr(palette[c].floor_depth, r.default_floor_depth)]
    ELSE DefaultGeometryTile

ResolveAmbientChar(c, palette) ==
    IF IsBlank(c) THEN DefaultAmbientTile
    ELSE IF c \in DOMAIN palette
    THEN [lights |-> palette[c].lights,
          particles |-> palette[c].particles,
          audio |-> palette[c].audio]
    ELSE DefaultAmbientTile

DefaultCeilingTile(r) ==
    [material |-> "ceiling",
     height |-> r.default_ceiling_height,
     thickness |-> r.default_ceiling_thickness]

ResolveCeilingChar(c, palette, r) ==
    IF IsBlank(c) THEN None
    ELSE IF c \in DOMAIN palette
    THEN Some([material |-> UnwrapOr(palette[c].material, "ceiling"),
               height |-> UnwrapOr(palette[c].height, r.default_ceiling_height),
               thickness |-> UnwrapOr(palette[c].thickness, r.default_ceiling_thickness)])
    ELSE Some(DefaultCeilingTile(r))

\* synthesized ceiling of one geometry tile when no ceiling grid is authored
CeilingFromGeometry(geo_tile, r) ==
    IF has_floor(geo_tile.kind) THEN Some(DefaultCeilingTile(r)) ELSE None

(***************************************************************************)
(* from_raw: the grids.                                                    *)
(***************************************************************************)
ResolveGeometryGrid(r, palette, geo_width) ==
    [z \in 1..Len(r.geometry) |->
        Resize([x \in 1..Len(r.geometry[z]) |-> ResolveGeometryChar(r.geometry[z][x], palette, r)],
               geo_width, DefaultGeometryTile)]

ResolveAmbientGrid(r, palette, amb_width) ==
    [z \in 1..Len(r.ambient) |->
        Resize([x \in 1..Len(r.ambient[z]) |-> ResolveAmbientChar(r.ambient[z][x], palette)],
               amb_width, DefaultAmbientTile)]

ResolveCeilingGrid(r, palette, geo_width) ==
    [z \in 1..Len(r.ceiling) |->
        Resize([x \in 1..Len(r.ceiling[z]) |-> ResolveCeilingChar(r.ceiling[z][x], palette, r)],
               geo_width, None)]

SynthesizeCeilingGrid(geometry, r) ==
    [z \in 1..Len(geometry) |->
        [x \in 1..Len(geometry[z]) |-> CeilingFromGeometry(geometry[z][x], r)]]

\* the monster loop recording an unknown character as a spawn
M_MonsterCell_UnknownSpawns(spawns, c, x, z, palette) ==
    IF ~IsBlank(c)
    THEN Append(spawns, [grid_pos |-> <<x, z>>,
                         enemy_type |-> IF c \in DOMAIN palette THEN palette[c] ELSE "unknown"])
    ELSE spawns

\* the monster loop recording (row, column) for (column, row)
M_MonsterCell_Transposed(spawns, c, x, z, palette) ==
    IF ~IsBlank(c) /\ c \in DOMAIN palette
    THEN Append(spawns, [grid_pos |-> <<z, x>>, enemy_type |-> palette[c]])
    ELSE spawns

\* the monster loop counting columns from 1
M_MonsterCell_OneBased(spawns, c, x, z, palette) ==
    IF ~IsBlank(c) /\ c \in DOMAIN palette
    THEN Append(spawns, [grid_pos |-> <<x + 1, z>>, enemy_type |-> palette[c]])
    ELSE spawns

\* the body of the inner monster loop for the character c at column x
\* (0-based) of row z (0-based): the spawn list after the iteration
MonsterCell(spawns, c, x, z, palette) ==
    IF ~IsBlank(c) /\ c \in DOMAIN palette
    THEN Append(spawns, [grid_pos |-> <<x, z>>, enemy_type |-> palette[c]])
    ELSE spawns

\* for (x, c) in row.chars().enumerate(), from column x on
RECURSIVE MonsterRow(_, _, _, _, _)
MonsterRow(spawns, row, x, z, palette) ==
    IF x >= Len(row) THEN spawns
    ELSE MonsterRow(MonsterCell(spawns, row[x + 1], x, z, palette), row, x + 1, z, palette)

\* for (z, row) in raw.monsters.iter().enumerate(), from row z on
RECURSIVE MonsterRows(_, _, _, _)
MonsterRows(spawns, rows, z, palette) ==
    IF z >= Len(rows) THEN spawns
    ELSE MonsterRows(MonsterRow(spawns, rows[z + 1], 0, z, palette), rows, z + 1, palette)

(***************************************************************************)
(* Result<LevelDefinition, String>                                         *)
(***************************************************************************)
Err(what, gw, gh, w, h) == [tag |-> "Err", level |-> None, err |-> <<what, gw, gh, w, h>>]
Ok(level) == [tag |-> "Ok", level |-> Some(level), err |-> <<>>]

\* the dimension check with the width comparison left out
M_DimensionMismatch_RowsOnly(h, w, geo_height, geo_width) == h # geo_height

\* one layer's dimension check
DimensionMismatch(h, w, geo_height, geo_width) == h # geo_height \/ w # geo_width

\* LevelDefinition::from_raw
from_raw(r, reg) ==
    LET geo_height == GridHeight(r.geometry)
        geo_width == GridWidth(r.geometry)
        amb_height == GridHeight(r.ambient)
        amb_width == GridWidth(r.ambient)
        geometry_palette == GeometryPaletteOf(r, reg)
        ambient_palette == AmbientPaletteOf(r, reg)
        monster_palette == MonsterPaletteOf(r, reg)
        ceiling_palette == CeilingPaletteOf(r, reg)
        geometry == ResolveGeometryGrid(r, geometry_palette, geo_width)
        ambient == ResolveAmbientGrid(r, ambient_palette, amb_width)
        mon_height == GridHeight(r.monsters)
        mon_width == GridWidth(r.monsters)
        ceil_height == GridHeight(r.ceiling)
        ceil_width == GridWidth(r.ceiling)
    IN  IF DimensionMismatch(amb_height, amb_width, geo_height, geo_width)
        THEN Err("Grid dimension mismatch", geo_width, geo_height, amb_width, amb_height)
        ELSE IF r.monsters # <<>> /\ DimensionMismatch(mon_height, mon_width, geo_height, geo_width)
        THEN Err("Monster grid dimension mismatch", geo_width, geo_height, mon_width, mon_height)
        ELSE IF r.ceiling # <<>> /\ DimensionMismatch(ceil_height, ceil_width, geo_height, geo_width)
        THEN Err("Ceiling grid dimension mismatch", geo_width, geo_height, ceil_width, ceil_height)
        ELSE Ok([name |-> r.name,
                 tile_size |-> r.tile_size,
                 default_wall_height |-> r.default_wall_height,
                 default_floor_depth |-> r.default_floor_depth,
                 default_ceiling_height |-> r.default_ceiling_height,
                 default_ceiling_thickness |-> r.default_ceiling_thickness,
                 global_ambient |-> r.global_ambient,
                 player_start |-> r.player_start,
                 width |-> geo_width,
                 height |-> geo_height,
                 geometry |-> geometry,
                 ambient |-> ambient,
                 ceiling |-> IF r.ceiling # <<>>
                             THEN ResolveCeilingGrid(r, ceiling_palette, geo_width)
                             ELSE SynthesizeCeilingGrid(geometry, r),
                 monster_spawns |-> IF r.monsters # <<>>
                                    THEN MonsterRows(<<>>, r.monsters, 0, monster_palette)
                                    ELSE <<>>,
                 spawn_zones |-> r.spawn_zones])

\* The outcome of a query: the value returned, or a panic of the indexing.
Returned(v) == [panic |-> FALSE, value |-> <<v>>]
Panicked == [panic |-> TRUE, value |-> <<>>]

\* grid[uz][ux] on a Vec<Vec<T>>: panics when an index is out of range
Index2(grid, uz, ux) ==
    IF (uz + 1) \in DOMAIN grid /\ (ux + 1) \in DOMAIN grid[uz + 1]
    THEN Returned(grid[uz + 1][ux + 1])
    ELSE Panicked

\* get_geometry with an off-by-one upper bound
M_get_geometry_OffByOne(level, x, z) ==
    IF x < 0 \/ z < 0 THEN Returned(OutOfBoundsGeometryTile)
    ELSE IF z > level.height \/ x > level.width THEN Returned(OutOfBoundsGeometryTile)
    ELSE Index2(level.geometry, z, x)

\* LevelDefinition::get_geometry
get_geometry(level, x, z) ==
    IF x < 0 \/ z < 0 THEN Returned(OutOfBoundsGeometryTile)
    ELSE IF z >= level.height \/ x >= level.width THEN Returned(OutOfBoundsGeometryTile)
    ELSE Index2(level.geometry, z, x)

\* LevelDefinition::get_ambient
get_ambient(level, x, z) ==
    IF x < 0 \/ z < 0 THEN Returned(DefaultAmbientTile)
    ELSE IF z >= level.height \/ x >= level.width THEN Returned(DefaultAmbientTile)
    ELSE Index2(level.ambient, z, x)

\* LevelDefinition::get_ceiling (.as_ref() of the stored Option)
get_ceiling(level, x, z) ==
    IF x < 0 \/ z < 0 THEN Returned(None)
    ELSE IF z >= level.height \/ x >= level.width THEN Returned(None)
    ELSE Index2(level.ceiling, z, x)

(***************************************************************************)
(* Inputs: palette catalogs.  The inline and the external catalog of a     *)
(* layer define different characters, and different tiles for the          *)
(* characters they share.                                                  *)
(***************************************************************************)
GeoDef(kind, material, height, floor_depth) ==
    [kind |-> kind, material |-> material, height |-> height, floor_depth |-> floor_depth]

InlineGeometryPalette ==
    ("#" :> GeoDef("Wall", None, Some(300), None)) @@
    ("." :> GeoDef("Floor", None, None, None)) @@
    ("P" :> GeoDef("Pillar", Some("wood"), None, None)) @@
    ("D" :> GeoDef("Doorway", None, None, Some(20)))

ExternalGeometryPalette ==
    ("#" :> GeoDef("Wall", Some("metal"), None, None)) @@
    ("." :> GeoDef("Floor", Some("wood"), None, Some(30))) @@
    (" " :> GeoDef("Floor", None, None, None)) @@
    ("X" :> GeoDef("Pillar", None, Some(250), None))

Light(height, intensity) ==
    [height |-> height, intensity |-> intensity, shadows |-> FALSE,
     color |-> <<100, 80, 60>>, range |-> 1500]

Particle(kind, height) == [kind |-> kind, height |-> height, rate |-> 500, color |-> None]

Audio(sound) == [sound |-> sound, volume |-> 50, radius |-> 500]

AmbDef(lights, particles, audio) == [lights |-> lights, particles |-> particles, audio |-> audio]

InlineAmbientPalette ==
    ("L" :> AmbDef(<<Light(250, 30000)>>, <<>>, <<>>)) @@
    ("T" :> AmbDef(<<Light(300, 60000), Light(100, 500)>>, <<Particle("dust", 100)>>, <<>>)) @@
    ("." :> AmbDef(<<Light(50, 100)>>, <<>>, <<>>))

ExternalAmbientPalette ==
    ("L" :> AmbDef(<<Light(200, 20000)>>, <<>>, <<>>)) @@
    ("A" :> AmbDef(<<>>, <<>>, <<Audio("drip")>>)) @@
    (" " :> AmbDef(<<Light(50, 100)>>, <<>>, <<>>))

InlineMonsterPalette == ("g" :> "goblin") @@ ("o" :> "orc") @@ ("." :> "ghost")

ExternalMonsterPalette == ("g" :> "skeleton") @@ ("s" :> "slime") @@ (" " :> "ghost")

CeilDef(material, height, thickness) ==
    [material |-> material, height |-> height, thickness |-> thickness]

InlineCeilingPalette ==
    ("c" :> CeilDef(None, None, None)) @@
    ("h" :> CeilDef(Some("skylight"), Some(600), None)) @@
    ("." :> CeilDef(Some("stone_ceiling"), None, None))

ExternalCeilingPalette ==
    ("c" :> CeilDef(None, None, Some(10))) @@
    ("w" :> CeilDef(Some("wood_ceiling"), None, None)) @@
    (" " :> CeilDef(Some("stone_ceiling"), None, None))

Layers == {"geometry", "ambient", "monster", "ceiling"}

\* the name under which each category's catalog file is stored
FoundFile == [l \in Layers |-> l \o "_main.ron"]

\* a catalog name no category of the registry holds
MissingFile == "dungeon.ron"

FullRegistry ==
    [geometry |-> (FoundFile["geometry"] :> ExternalGeometryPalette),
     ambient |-> (FoundFile["ambient"] :> ExternalAmbientPalette),
     monster |-> (FoundFile["monster"] :> ExternalMonsterPalette),
     ceiling |-> (FoundFile["ceiling"] :> ExternalCeilingPalette)]

\* PaletteRegistry::default()
EmptyRegistry == [geometry |-> <<>>, ambient |-> <<>>, monster |-> <<>>, ceiling |-> <<>>]

(***************************************************************************)
(* Inputs: authored grids.  A shape is the sequence of the row lengths of  *)
(* a grid; a filling writes the characters of a layer's alphabet into a    *)
(* shape, cycling from a phase with a stride per column and per row.       *)
(***************************************************************************)
Alphabet ==
    [geometry |-> <<".", "#", "P", "D", "X", " ">>,
     ambient |-> <<"L", ".", "T", "?", "A", " ">>,
     monster |-> <<"g", "Z", ".", "o", "s", " ">>,
     ceiling |-> <<"c", ".", "h", "?", "w", " ">>]

Shapes == UNION {[1..h -> 0..MaxW] : h \in 0..MaxH}

Fill(layer, shape, seed) ==
    LET a == Alphabet[layer]
        k == Len(a)
        phase == seed % k
        stride == 1 + (seed \div k)
    IN  [z \in 1..Len(shape) |->
            [x \in 1..shape[z] |-> a[((phase + (x - 1) * stride + (z - 1) * (stride + 2)) % k) + 1]]]

Deformations == {"same", "short_row", "long_row", "drop_row", "add_row", "reverse", "empty"}

Deform(shape, d) ==
    LET h == Len(shape)
    IN  CASE d = "same" -> shape
          [] d = "short_row" ->
                [z \in 1..h |-> IF z = h /\ shape[z] > 0 THEN shape[z] - 1 ELSE shape[z]]
          [] d = "long_row" -> [z \in 1..h |-> IF z = 1 THEN shape[z] + 1 ELSE shape[z]]
          [] d = "drop_row" -> SubSeq(shape, 1, h - 1)
          [] d = "add_row" -> Append(shape, IF h = 0 THEN 0 ELSE shape[h])
          [] d = "reverse" -> [z \in 1..h |-> shape[h + 1 - z]]
          [] d = "empty" -> <<>>

CatalogModes == {"inline", "found", "missing"}

PaletteFile(layer, mode) ==
    CASE mode = "inline" -> None
      [] mode = "found" -> Some(FoundFile[layer])
      [] mode = "missing" -> Some(MissingFile)

AllSame == [l \in Layers |-> "same"]
AllInline == [l \in Layers |-> "inline"]

\* how the layers of one authored level differ from its geometry grid, and
\* where each layer's catalog comes from: the optional layers present or
\* absent, one layer's grid deformed, or the layers' catalogs named
Variants ==
    {[deform |-> [AllSame EXCEPT !["monster"] = m, !["ceiling"] = c],
      catalog |-> AllInline, registry |-> reg] :
        m \in {"same", "empty"}, c \in {"same", "empty"}, reg \in {FullRegistry, EmptyRegistry}}
    \cup
    {[deform |-> [AllSame EXCEPT ![l] = d], catalog |-> AllInline, registry |-> FullRegistry] :
        l \in Layers \ {"geometry"}, d \in Deformations}
    \cup
    {[deform |-> [AllSame EXCEPT !["ceiling"] = c],
      catalog |-> [AllInline EXCEPT ![l] = m], registry |-> FullRegistry] :
        l \in Layers, m \in CatalogModes, c \in {"same", "empty"}}
    \cup
    {[deform |-> AllSame, catalog |-> [l \in Layers |-> m], registry |-> reg] :
        m \in {"found", "missing"}, reg \in {FullRegistry, EmptyRegistry}}

RawLevel(shape, seed, v) ==
    [name |-> "level",
     tile_size |-> 200,
     default_wall_height |-> 350,
     default_floor_depth |-> 40,
     default_ceiling_height |-> 450,
     default_ceiling_thickness |-> 25,
     global_ambient |-> [color |-> <<40, 40, 50>>, brightness |-> 3000],
     player_start |-> <<0, 0>>,
     geometry_palette_file |-> PaletteFile("geometry", v.catalog["geometry"]),
     ambient_palette_file |-> PaletteFile("ambient", v.catalog["ambient"]),
     monster_palette_file |-> PaletteFile("monster", v.catalog["monster"]),
     ceiling_palette_file |-> PaletteFile("ceiling", v.catalog["ceiling"]),
     geometry_palette |-> InlineGeometryPalette,
     ambient_palette |-> InlineAmbientPalette,
     monster_palette |-> InlineMonsterPalette,
     ceiling_palette |-> InlineCeilingPalette,
     geometry |-> Fill("geometry", shape, seed),
     ambient |-> Fill("ambient", Deform(shape, v.deform["ambient"]), seed),
     monsters |-> Fill("monster", Deform(shape, v.deform["monster"]), seed),
     ceiling |-> Fill("ceiling", Deform(shape, v.deform["ceiling"]), seed),
     spawn_zones |-> <<>>]

NotRun == [tag |-> "NotRun", level |-> None, err |-> <<>>]
NoProbe == <<>>

(***************************************************************************)
(* Resolution of one authored level.                                       *)
(***************************************************************************)
IdleLoad ==
    /\ levels_dir = <<>> /\ level_registry = None /\ current_level = None
    /\ palettes_dir = <<>> /\ palette_resource = None

IdleBuild ==
    builder_level = <<>> /\ builder_registry = {} /\ prefab = <<>> /\ spawned = None

NoEvents == [log |-> <<>>, read |-> 0, sent |-> 0]
NoInput == [escape |-> FALSE, block |-> FALSE]

IdleCombat ==
    /\ health = <<>> /\ dead = {} /\ damage_events = NoEvents /\ death_log = NoEvents
    /\ ran = {} /\ input = NoInput /\ enemy = None

IdleGame ==
    /\ game_state = "Loading" /\ next_state = None /\ world = {} /\ builds = 0
    /\ enemy_files = {} /\ enemy_registry = {} /\ death_events = {}
    /\ IdleCombat

InitResolve ==
    /\ IdleLoad /\ IdleGame /\ IdleBuild
    /\ \E shape \in Shapes, seed \in 0..(NSeeds - 1), v \in Variants :
          /\ raw = RawLevel(shape, seed, v)
          /\ palette_registry = v.registry
    /\ result = NotRun
    /\ probe = NoProbe
    /\ pc = "input"

\* LevelDefinition::from_raw(raw, &palette_registry)
FromRaw ==
    /\ pc = "input"
    /\ result' = from_raw(raw, palette_registry)
    /\ pc' = "resolved"
    /\ UNCHANGED <<raw, palette_registry, probe, loadVars, gameVars, buildVars, combatVars>>

NextResolve == FromRaw

(***************************************************************************)
(* Queries on a resolved level: coordinates from one cell before the grid  *)
(* to one cell beyond the largest grid.                                    *)
(***************************************************************************)
QueryVariants ==
    {[deform |-> [AllSame EXCEPT !["ceiling"] = c], catalog |-> AllInline,
      registry |-> FullRegistry] : c \in {"same", "empty"}}

InitQuery ==
    /\ IdleLoad /\ IdleGame /\ IdleBuild
    /\ \E shape \in Shapes, seed \in 0..(NSeeds - 1), v \in QueryVariants :
          /\ raw = RawLevel(shape, seed, v)
          /\ palette_registry = v.registry
    /\ result = NotRun
    /\ probe = NoProbe
    /\ pc = "input"

\* get_geometry(x, z), get_ambient(x, z) and get_ceiling(x, z) on the level
Probe ==
    /\ pc = "resolved"
    /\ result.tag = "Ok"
    /\ \E x \in -1..(MaxW + 1), z \in -1..(MaxH + 1) :
          probe' = <<[x |-> x, z |-> z,
                      geometry |-> get_geometry(Unwrap(result.level), x, z),
                      ambient |-> get_ambient(Unwrap(result.level), x, z),
                      ceiling |-> get_ceiling(Unwrap(result.level), x, z)]>>
    /\ pc' = "probed"
    /\ UNCHANGED <<raw, palette_registry, result, loadVars, gameVars, buildVars, combatVars>>

NextQuery == FromRaw \/ Probe

SpecQuery == InitQuery /\ [][NextQuery]_vars

SpecResolve == InitResolve /\ [][NextResolve]_vars

(***************************************************************************)
(* load_level_definitions.  A path is the sequence of the dot-separated    *)
(* parts of a file name: "a.level.ron" is <<"a", "level", "ron">>.  A      *)
(* directory entry holds its path and what reading and parsing it give.    *)
(***************************************************************************)
\* Path::extension
Extension(path) == IF Len(path) >= 2 THEN Some(path[Len(path)]) ELSE None

\* Path::file_stem
FileStem(path) == IF Len(path) >= 2 THEN SubSeq(path, 1, Len(path) - 1) ELSE path

\* name.strip_suffix(".level").unwrap_or(&name)
StripLevelSuffix(stem) ==
    IF Len(stem) >= 2 /\ stem[Len(stem)] = "level" THEN SubSeq(stem, 1, Len(stem) - 1) ELSE stem

\* HashMap::insert
MapInsert(m, k, v) == [j \in (DOMAIN m) \cup {k} |-> IF j = k THEN v ELSE m[j]]

\* a failing level file empties the registry
M_LoadEntry_FailureClears(levels, e, reg) ==
    IF Extension(e.path) # Some("ron") THEN levels
    ELSE IF e.read # "ok" THEN <<>>
    ELSE IF e.parse # "ok" THEN <<>>
    ELSE LET res == from_raw(Unwrap(e.raw), reg)
         IN  IF res.tag = "Ok"
             THEN MapInsert(levels, StripLevelSuffix(FileStem(e.path)), Unwrap(res.level))
             ELSE <<>>

\* the body of the loop over the directory entries: the levels after entry e
LoadEntry(levels, e, reg) ==
    IF Extension(e.path) # Some("ron") THEN levels
    ELSE IF e.read # "ok" THEN levels
    ELSE IF e.parse # "ok" THEN levels
    ELSE LET res == from_raw(Unwrap(e.raw), reg)
         IN  IF res.tag = "Ok"
             THEN MapInsert(levels, StripLevelSuffix(FileStem(e.path)), Unwrap(res.level))
             ELSE levels

\* for entry in entries.flatten()
RECURSIVE LoadEntries(_, _, _)
LoadEntries(levels, entries, reg) ==
    IF entries = <<>> THEN levels
    ELSE LoadEntries(LoadEntry(levels, Head(entries), reg), Tail(entries), reg)

\* the file names of the directory
LevelPaths ==
    {<<"a", "ron">>, <<"a", "level", "ron">>, <<"b", "level", "ron">>, <<"b", "txt">>}

OneRow == <<1>>

\* a level description that resolves, and one whose monster grid has a row
\* too many
GoodRaw(path) ==
    [RawLevel(OneRow, 1, [deform |-> AllSame, catalog |-> AllInline, registry |-> FullRegistry])
        EXCEPT !.name = path]
BadRaw(path) ==
    [RawLevel(OneRow, 1, [deform |-> [AllSame EXCEPT !["monster"] = "add_row"],
                          catalog |-> AllInline, registry |-> FullRegistry])
        EXCEPT !.name = path]

\* what a file of the directory may hold
Entries(path) ==
    {[path |-> path, read |-> "failed", parse |-> "none", raw |-> None],
     [path |-> path, read |-> "ok", parse |-> "failed", raw |-> None],
     [path |-> path, read |-> "ok", parse |-> "ok", raw |-> Some(GoodRaw(path))],
     [path |-> path, read |-> "ok", parse |-> "ok", raw |-> Some(BadRaw(path))]}

\* the directory listings: files of distinct names in any order
Listings ==
    {l \in UNION {[1..n -> UNION {Entries(p) : p \in LevelPaths}] : n \in 0..MaxFiles} :
        \A i, j \in DOMAIN l : i # j => l[i].path # l[j].path}

IdleResolve ==
    /\ raw = <<>> /\ result = NotRun /\ probe = NoProbe /\ pc = "idle"

InitLoad ==
    /\ IdleResolve /\ IdleGame /\ IdleBuild
    /\ palette_registry \in {FullRegistry, EmptyRegistry}
    /\ levels_dir \in {[exists |-> TRUE, entries |-> l] : l \in Listings}
                     \cup {[exists |-> FALSE, entries |-> <<>>]}
    /\ level_registry = None
    /\ current_level = None
    /\ palettes_dir = <<>> /\ palette_resource = None

\* load_level_definitions
LoadLevelDefinitions ==
    /\ level_registry = None
    /\ levels_dir # <<>>
    /\ level_registry' =
          Some([levels |-> IF levels_dir.exists
                           THEN LoadEntries(<<>>, levels_dir.entries, palette_registry)
                           ELSE <<>>])
    /\ current_level' = Some([name |-> "level1"])
    /\ UNCHANGED <<levels_dir, palettes_dir, palette_resource, resolveVars, gameVars, buildVars, combatVars>>

NextLoad == LoadLevelDefinitions

SpecLoad == InitLoad /\ [][NextLoad]_vars

(***************************************************************************)
(* load_palette_files.  A path of the palettes directory is the sequence   *)
(* of the dot-separated parts of its file name, with whether the name is   *)
(* valid Unicode; an entry holds its path, whether the directory iterator  *)
(* yields it, whether it can be read, and the palette file types its       *)
(* contents deserialize as.                                                *)
(***************************************************************************)
MaxPalettes == 2

\* the parts of a name joined by dots
RECURSIVE JoinParts(_)
JoinParts(parts) ==
    IF parts = <<>> THEN ""
    ELSE IF Len(parts) = 1 THEN parts[1]
    ELSE parts[1] \o "." \o JoinParts(Tail(parts))

\* Path::file_name().and_then(|s| s.to_str()): None for a name that is
\* not valid Unicode
file_name_str(path) == IF path.unicode THEN Some(JoinParts(path.parts)) ELSE None

\* the palette words each file name of the directory contains
NameWords ==
    ("geometry_main.ron" :> {"geometry"}) @@
    ("ambient_main.ron" :> {"ambient"}) @@
    ("monster_main.ron" :> {"monster"}) @@
    ("ceiling_main.ron" :> {"ceiling"}) @@
    ("ceiling_geometry.ron" :> {"ceiling", "geometry"}) @@
    ("monster_ambient.ron" :> {"monster", "ambient"}) @@
    ("dungeon.ron" :> {}) @@
    ("geometry.txt" :> {"geometry"}) @@
    ("geometry_<FF>.ron" :> {"geometry"}) @@
    ("dungeon_<FF>.ron" :> {}) @@
    ("" :> {})

\* str::contains
Contains(filename, word) == word \in NameWords[filename]

\* ron::from_str::<T>(&contents) for the palette file type of a category
ParseAs(e, category) ==
    IF category \in e.parses
    THEN Some(CASE category = "geometry" -> ExternalGeometryPalette
                [] category = "ambient" -> ExternalAmbientPalette
                [] category = "monster" -> ExternalMonsterPalette
                [] category = "ceiling" -> ExternalCeilingPalette)
    ELSE None

\* registry.<category>.insert(filename, palette)
InsertPalette(registry, category, filename, palette) ==
    CASE category = "geometry" ->
            [registry EXCEPT !.geometry = MapInsert(registry.geometry, filename, palette)]
      [] category = "ambient" ->
            [registry EXCEPT !.ambient = MapInsert(registry.ambient, filename, palette)]
      [] category = "monster" ->
            [registry EXCEPT !.monster = MapInsert(registry.monster, filename, palette)]
      [] category = "ceiling" ->
            [registry EXCEPT !.ceiling = MapInsert(registry.ceiling, filename, palette)]

\* the palette type a file name declares: ceiling, geometry, ambient,
\* monster in this order, None when the name holds none of the words
DeclaredCategory(filename) ==
    IF Contains(filename, "ceiling") THEN Some("ceiling")
    ELSE IF Contains(filename, "geometry") THEN Some("geometry")
    ELSE IF Contains(filename, "ambient") THEN Some("ambient")
    ELSE IF Contains(filename, "monster") THEN Some("monster")
    ELSE None

\* "Fallback: try each format in order"
FallbackCategory(e) ==
    IF IsSome(ParseAs(e, "geometry")) THEN Some("geometry")
    ELSE IF IsSome(ParseAs(e, "monster")) THEN Some("monster")
    ELSE IF IsSome(ParseAs(e, "ceiling")) THEN Some("ceiling")
    ELSE IF IsSome(ParseAs(e, "ambient")) THEN Some("ambient")
    ELSE None

\* the registry after the contents of the file named filename are parsed
StorePalette(registry, e, filename) ==
    LET declared == DeclaredCategory(filename)
        category == IF IsSome(declared) THEN declared ELSE FallbackCategory(e)
    IN  IF IsSome(category) /\ IsSome(ParseAs(e, Unwrap(category)))
        THEN InsertPalette(registry, Unwrap(category), filename, Unwrap(ParseAs(e, Unwrap(category))))
        ELSE registry

\* the body of the loop over the directory entries: the registry after e
LoadPaletteEntry(registry, e) ==
    IF ~e.entry_ok THEN registry
    ELSE IF Extension(e.path.parts) # Some("ron") THEN registry
    ELSE IF ~e.read_ok THEN registry
    ELSE StorePalette(registry, e, UnwrapOr(file_name_str(e.path), ""))

\* for entry in entries.flatten()
RECURSIVE LoadPaletteEntries(_, _)
LoadPaletteEntries(registry, entries) ==
    IF entries = <<>> THEN registry
    ELSE LoadPaletteEntries(LoadPaletteEntry(registry, Head(entries)), Tail(entries))

\* the registry load_palette_files inserts
load_palette_files(dir) ==
    IF dir.exists /\ dir.read_dir_ok
    THEN LoadPaletteEntries(EmptyRegistry, dir.entries)
    ELSE EmptyRegistry

\* the file names of the palettes directory; <FF> stands for a byte that
\* is not valid UTF-8
PalettePaths ==
    {[parts |-> <<"geometry_main", "ron">>, unicode |-> TRUE],
     [parts |-> <<"ambient_main", "ron">>, unicode |-> TRUE],
     [parts |-> <<"monster_main", "ron">>, unicode |-> TRUE],
     [parts |-> <<"ceiling_main", "ron">>, unicode |-> TRUE],
     [parts |-> <<"ceiling_geometry", "ron">>, unicode |-> TRUE],
     [parts |-> <<"monster_ambient", "ron">>, unicode |-> TRUE],
     [parts |-> <<"dungeon", "ron">>, unicode |-> TRUE],
     [parts |-> <<"geometry", "txt">>, unicode |-> TRUE],
     [parts |-> <<"geometry_<FF>", "ron">>, unicode |-> FALSE],
     [parts |-> <<"dungeon_<FF>", "ron">>, unicode |-> FALSE]}

\* the palette file types the contents of a file may deserialize as: none,
\* one (a file that names its struct), or every type whose fields it fits
ParseSets ==
    {{}, {"geometry"}, {"monster"}, {"ceiling"}, {"ambient", "ceiling"},
     {"geometry", "ambient", "ceiling"}}

\* what a file of the palettes directory may be
PaletteEntries(path) ==
    {[path |-> path, entry_ok |-> FALSE, read_ok |-> FALSE, parses |-> {}],
     [path |-> path, entry_ok |-> TRUE, read_ok |-> FALSE, parses |-> {}]}
    \cup {[path |-> path, entry_ok |-> TRUE, read_ok |-> TRUE, parses |-> s] : s \in ParseSets}

\* the directory listings: files of distinct names in any order
PaletteListings ==
    {l \in UNION {[1..n -> UNION {PaletteEntries(p) : p \in PalettePaths}] : n \in 0..MaxPalettes} :
        \A i, j \in DOMAIN l : i # j => l[i].path # l[j].path}

\* a level that names the four catalogs "<layer>_main.ron"
PaletteLevel ==
    RawLevel(OneRow, 1, [deform |-> AllSame, catalog |-> [l \in Layers |-> "found"],
                         registry |-> EmptyRegistry])

InitPalettes ==
    /\ IdleResolve /\ IdleGame /\ IdleBuild
    /\ palette_registry = EmptyRegistry
    /\ palettes_dir \in
          {[exists |-> TRUE, read_dir_ok |-> TRUE, entries |-> l] : l \in PaletteListings}
          \cup {[exists |-> TRUE, read_dir_ok |-> FALSE, entries |-> <<>>],
                [exists |-> FALSE, read_dir_ok |-> FALSE, entries |-> <<>>]}
    /\ palette_resource = None
    /\ levels_dir = [exists |-> TRUE,
                     entries |-> <<[path |-> <<"a", "ron">>, read |-> "ok", parse |-> "ok",
                                    raw |-> Some(PaletteLevel)]>>]
    /\ level_registry = None
    /\ current_level = None

\* load_palette_files: commands.insert_resource(registry)
LoadPaletteFiles ==
    /\ palette_resource = None
    /\ palette_resource' = Some(load_palette_files(palettes_dir))
    /\ UNCHANGED <<levels_dir, level_registry, current_level, palettes_dir,
                   resolveVars, gameVars, buildVars, combatVars>>

\* load_level_definitions with the inserted registry as Res<PaletteRegistry>
LoadLevelsWithPalettes ==
    /\ palette_resource # None
    /\ level_registry = None
    /\ level_registry' =
          Some([levels |-> IF levels_dir.exists
                           THEN LoadEntries(<<>>, levels_dir.entries, Unwrap(palette_resource))
                           ELSE <<>>])
    /\ current_level' = Some([name |-> "level1"])
    /\ UNCHANGED <<levels_dir, palettes_dir, palette_resource, resolveVars, gameVars, buildVars, combatVars>>

NextPalettes == LoadPaletteFiles \/ LoadLevelsWithPalettes

SpecPalettes == InitPalettes /\ [][NextPalettes]_vars

(***************************************************************************)
(* The game state machine and the entities of the world.  An entity is a   *)
(* record of the build (entry into InGame) that spawned it, what it is,    *)
(* and its marker components; children are despawned with their parent     *)
(* and are not entities of their own here.                                 *)
(***************************************************************************)
GameStates == {"Loading", "MainMenu", "InGame", "Paused", "GameOver"}

Entity(kind, build, idx, markers) ==
    [kind |-> kind, build |-> build, idx |-> idx, markers |-> markers]

\* Query<Entity, With<marker>>
With(w, marker) == {e \in w : marker \in e.markers}

\* commands.entity(e).despawn_recursive() for every entity of the query
Despawn(w, query) == w \ query

\* the spawn helpers of setup_dungeon; each stands for the entities it spawns
GeometryHelpers == {"floor", "ceiling", "wall", "pillar", "light"}

\* max_enemies of the spawn zones of the great hall, the east and the west chamber
ZoneMaxEnemies == <<2, 1, 1>>

\* setup_dungeon: the player, the level geometry and the spawn zones
setup_dungeon(w, b) ==
    w \cup {Entity("player", b, <<0, 0>>, {"Player"})}
      \cup {Entity(h, b, <<0, 0>>, {"LevelGeometry"}) : h \in GeometryHelpers}
      \cup {Entity("zone", b, <<z, 0>>, {"SpawnZone", "LevelGeometry"}) : z \in DOMAIN ZoneMaxEnemies}

\* load_enemy_definitions
load_enemy_definitions(reg, files) == reg \cup files

\* the enemies spawn_enemies_in_zones spawns for one zone: n of them found
\* a position with enough separation
ZoneEnemies(zone, b, n) ==
    {Entity("enemy", b, <<zone.idx[1], i>>, {"Enemy"}) : i \in 1..n}

\* spawn_enemies_in_zones: placed[z] enemies for each zone z of the query
spawn_enemies_in_zones(w, b, reg, placed) ==
    w \cup UNION {IF "orc" \in reg THEN ZoneEnemies(zone, b, placed[zone.idx[1]]) ELSE {} :
                    zone \in With(w, "SpawnZone")}

\* spawn_hud
spawn_hud(w) == w \cup {Entity("hud", 0, <<0, 0>>, {"HudRoot"})}

\* cleanup_hud
cleanup_hud(w) == Despawn(w, With(w, "HudRoot"))

\* cleanup_level
cleanup_level(w) == Despawn(Despawn(w, With(w, "LevelGeometry")), With(w, "Player"))

\* setup_main_menu
setup_main_menu(w) ==
    w \cup {Entity("menu_camera", 0, <<0, 0>>, {"MenuCamera"}),
            Entity("main_menu", 0, <<0, 0>>, {"MainMenuUi"})}

\* cleanup_main_menu
cleanup_main_menu(w) == Despawn(Despawn(w, With(w, "MainMenuUi")), With(w, "MenuCamera"))

\* setup_pause_menu
setup_pause_menu(w) == w \cup {Entity("pause_menu", 0, <<0, 0>>, {"PauseMenuUi"})}

\* cleanup_pause_menu
cleanup_pause_menu(w) == Despawn(w, With(w, "PauseMenuUi"))

\* setup_game_over
setup_game_over(w) ==
    w \cup {Entity("menu_camera", 0, <<0, 0>>, {"MenuCamera"}),
            Entity("game_over", 0, <<0, 0>>, {"GameOverUi"})}

\* cleanup_game_over
cleanup_game_over(w) == Despawn(Despawn(w, With(w, "GameOverUi")), With(w, "MenuCamera"))

\* the OnExit(state) schedule
OnExit(state, w) ==
    CASE state = "MainMenu" -> cleanup_main_menu(w)
      [] state = "InGame" -> cleanup_hud(cleanup_level(w))
      [] state = "Paused" -> cleanup_pause_menu(w)
      [] state = "GameOver" -> cleanup_game_over(w)
      [] OTHER -> w

\* the OnEnter(state) schedule; b is the build an entry into InGame makes
OnEnter(state, w, b, reg, placed) ==
    CASE state = "MainMenu" -> setup_main_menu(w)
      [] state = "InGame" -> spawn_hud(spawn_enemies_in_zones(setup_dungeon(w, b), b, reg, placed))
      [] state = "Paused" -> setup_pause_menu(w)
      [] state = "GameOver" -> setup_game_over(w)
      [] OTHER -> w

\* the numbers of enemies the zones may place: the first of a zone always
\* finds a position, a later one may not within MAX_SPAWN_ATTEMPTS
Placements ==
    {p \in [DOMAIN ZoneMaxEnemies -> 1..2] : \A z \in DOMAIN ZoneMaxEnemies : p[z] <= ZoneMaxEnemies[z]}

\* the app after startup: OnEnter(Loading) has run transition_to_main_menu
InitGame ==
    /\ IdleResolve /\ IdleLoad /\ IdleBuild /\ palette_registry = EmptyRegistry
    /\ game_state = "Loading"
    /\ next_state = Some("MainMenu")
    /\ world = {}
    /\ builds = 0
    /\ enemy_files \in {{"orc"}, {}}
    /\ enemy_registry = {}
    /\ death_events = {}
    /\ IdleCombat

\* the StateTransition schedule: OnExit of the state left, OnEnter of the
\* state entered.  DeathEvents still unread when InGame is left are
\* dropped before check_deaths can run again.
StateTransition ==
    /\ next_state # None
    /\ LET entered == Unwrap(next_state)
           b == IF entered = "InGame" THEN builds + 1 ELSE builds
           reg == IF entered = "InGame"
                  THEN load_enemy_definitions(enemy_registry, enemy_files)
                  ELSE enemy_registry
       IN  /\ b <= MaxBuilds
           /\ \E placed \in Placements :
                 world' = OnEnter(entered, OnExit(game_state, world), b, reg, placed)
           /\ game_state' = entered
           /\ builds' = b
           /\ enemy_registry' = reg
           /\ death_events' = IF game_state = "InGame" THEN {} ELSE death_events
    /\ next_state' = None
    /\ UNCHANGED <<enemy_files, resolveVars, loadVars, buildVars, combatVars>>

\* main_menu_input: the New Game button is pressed
MainMenuInput ==
    /\ game_state = "MainMenu"
    /\ next_state' = Some("InGame")
    /\ UNCHANGED <<game_state, world, builds, enemy_files, enemy_registry, death_events,
                   resolveVars, loadVars, buildVars, combatVars>>

\* handle_pause_input: Escape is pressed
HandlePauseInput ==
    /\ game_state \in {"InGame", "Paused"}
    /\ next_state' = Some(IF game_state = "InGame" THEN "Paused" ELSE "InGame")
    /\ UNCHANGED <<game_state, world, builds, enemy_files, enemy_registry, death_events,
                   resolveVars, loadVars, buildVars, combatVars>>

\* pause_menu_input: Resume or Main Menu is pressed
PauseMenuInput ==
    /\ game_state = "Paused"
    /\ \E button \in {"Resume", "MainMenu"} :
          next_state' = Some(IF button = "Resume" THEN "InGame" ELSE "MainMenu")
    /\ UNCHANGED <<game_state, world, builds, enemy_files, enemy_registry, death_events,
                   resolveVars, loadVars, buildVars, combatVars>>

\* game_over_input: Retry or Main Menu is pressed
GameOverInput ==
    /\ game_state = "GameOver"
    /\ \E button \in {"Retry", "MainMenu"} :
          next_state' = Some(IF button = "Retry" THEN "InGame" ELSE "MainMenu")
    /\ UNCHANGED <<game_state, world, builds, enemy_files, enemy_registry, death_events,
                   resolveVars, loadVars, buildVars, combatVars>>

\* apply_damage: a DamageEvent brings the health of the player to zero
PlayerKilled ==
    /\ game_state = "InGame"
    /\ \E p \in With(world, "Player") :
          /\ "Dead" \notin p.markers
          /\ world' = (world \ {p}) \cup {[p EXCEPT !.markers = @ \cup {"Dead"}]}
          /\ death_events' = death_events \cup {[p EXCEPT !.markers = {}]}
    /\ UNCHANGED <<game_state, next_state, builds, enemy_files, enemy_registry,
                   resolveVars, loadVars, buildVars, combatVars>>

\* check_deaths reads the DeathEvent of the player
CheckDeaths ==
    /\ game_state = "InGame"
    /\ \E ev \in death_events :
          /\ \E p \in With(world, "Player") : [p EXCEPT !.markers = {}] = ev
          /\ death_events' = death_events \ {ev}
    /\ next_state' = Some("GameOver")
    /\ UNCHANGED <<game_state, world, builds, enemy_files, enemy_registry,
                   resolveVars, loadVars, buildVars, combatVars>>

\* handle_enemy_death, then despawn_dead_enemies once the DeathTimer of a
\* killed enemy has finished
EnemyDespawned ==
    /\ game_state = "InGame"
    /\ \E e \in With(world, "Enemy") : world' = world \ {e}
    /\ UNCHANGED <<game_state, next_state, builds, enemy_files, enemy_registry, death_events,
                   resolveVars, loadVars, buildVars, combatVars>>

NextGame ==
    \/ StateTransition
    \/ MainMenuInput
    \/ HandlePauseInput
    \/ PauseMenuInput
    \/ GameOverInput
    \/ PlayerKilled
    \/ CheckDeaths
    \/ EnemyDespawned

SpecGame == InitGame /\ [][NextGame]_vars

(***************************************************************************)
(* Combat by frames.  A frame is the StateTransition schedule followed by  *)
(* the Update systems in any order their sets allow: apply_damage and      *)
(* check_deaths are both in CombatSet::Damage without an order between     *)
(* them, handle_pause_input is in no set.  Events<T> is the log of every   *)
(* event sent with its age in frames (0 sent this frame, 1 last frame, 2   *)
(* dropped), an EventReader the count of log entries it has read.  The     *)
(* DamageEvents leave the log when they are dropped; the DeathEvents stay  *)
(* in it, as the record of every death that was announced.  The            *)
(* components commands insert are in place when the inserting system's     *)
(* successors and the next frame's systems run: no system of the model     *)
(* reads them earlier.  Health and damage are in points, the resistance    *)
(* and the block reduction in hundredths.                                  *)
(***************************************************************************)
MaxDamageEvents == 3

\* Health::new(100.0) of spawn_player, max_health of EnemyStats::default()
PlayerMaxHealth == 100
EnemyMaxHealth == 50

\* the damage amounts sent: all of an enemy's health, all of the player's
DamageAmounts == {50, 100}

PlayerId(b) == [kind |-> "player", build |-> b]
EnemyId(b) == [kind |-> "enemy", build |-> b]

Min(a, b) == IF a <= b THEN a ELSE b

\* Health::take_damage: the health left
take_damage(current, amount) == current - Min(amount, current)

\* Health::is_dead
is_dead(current) == current <= 0

\* Option<&CombatState> of the target: the player has one, an enemy none
CombatStateOf(target, in) ==
    IF target.kind = "player"
    THEN Some([is_blocking |-> in.block, i_frames |-> 0])
    ELSE None

\* event.amount * (1.0 - resistance) * (1.0 - block_reduction), with the
\* resistances of Resistances::default()
FinalDamage(amount, combat_state) ==
    LET resistance == 0
        block_reduction == IF IsSome(combat_state) /\ Unwrap(combat_state).is_blocking
                           THEN 50 ELSE 0
    IN  (amount * (100 - resistance) * (100 - block_reduction)) \div 10000

\* the loop body without the died_this_frame test
M_DamageStep_NoDiedThisFrame(acc, event, marked, in) ==
    IF event.target \notin DOMAIN acc.health THEN acc
    ELSE IF event.target \in marked THEN acc
    ELSE IF IsSome(CombatStateOf(event.target, in))
            /\ Unwrap(CombatStateOf(event.target, in)).i_frames > 0 THEN acc
    ELSE LET left == take_damage(acc.health[event.target],
                                 FinalDamage(event.amount, CombatStateOf(event.target, in)))
         IN  IF is_dead(left)
             THEN [health |-> [acc.health EXCEPT ![event.target] = left],
                   died_this_frame |-> acc.died_this_frame \cup {event.target},
                   deaths |-> Append(acc.deaths, event.target)]
             ELSE [acc EXCEPT !.health[event.target] = left]

\* the body of the loop of apply_damage over one DamageEvent: marked are
\* the entities that carry Dead when the system starts
DamageStep(acc, event, marked, in) ==
    IF event.target \in acc.died_this_frame THEN acc
    ELSE IF event.target \notin DOMAIN acc.health THEN acc
    ELSE IF event.target \in marked THEN acc
    ELSE IF IsSome(CombatStateOf(event.target, in))
            /\ Unwrap(CombatStateOf(event.target, in)).i_frames > 0 THEN acc
    ELSE LET left == take_damage(acc.health[event.target],
                                 FinalDamage(event.amount, CombatStateOf(event.target, in)))
         IN  IF is_dead(left)
             THEN [health |-> [acc.health EXCEPT ![event.target] = left],
                   died_this_frame |-> acc.died_this_frame \cup {event.target},
                   deaths |-> Append(acc.deaths, event.target)]
             ELSE [acc EXCEPT !.health[event.target] = left]

\* for event in damage_events.read()
RECURSIVE apply_damage(_, _, _, _)
apply_damage(acc, events, marked, in) ==
    IF events = <<>> THEN acc
    ELSE apply_damage(DamageStep(acc, Head(events), marked, in), Tail(events), marked, in)

\* EventReader::read: the events not yet read that Events<T> still holds
Unread(events) ==
    LET idx == {i \in DOMAIN events.log : i > events.read /\ events.log[i].age < 2}
    IN  [k \in 1..Cardinality(idx) |->
            events.log[CHOOSE i \in idx : Cardinality({j \in idx : j < i}) = k - 1]]

\* Events::update, once a frame
UpdateEvents(events) ==
    [events EXCEPT !.log = [i \in DOMAIN events.log |->
                               [events.log[i] EXCEPT !.age = Min(@ + 1, 2)]]]

\* Events::update dropping what it ages out: the events of two frames ago
\* leave the buffer, and a reader's count of read events goes down with them
DropExpired(events) ==
    LET dropped == Cardinality({i \in DOMAIN events.log : events.log[i].age >= 2})
    IN  [events EXCEPT !.log = SubSeq(@, dropped + 1, Len(@)),
                       !.read = IF @ > dropped THEN @ - dropped ELSE 0]

\* EventWriter::send of each of the entities, in order
SendAll(events, entities) ==
    [events EXCEPT !.log = @ \o [i \in DOMAIN entities |-> [entity |-> entities[i], age |-> 0]],
                   !.sent = @ + Len(entities)]

MarkRead(events) == [events EXCEPT !.read = Len(events.log)]

\* the Update systems of the model that run in a state
Scheduled(state) ==
    CASE state = "InGame" -> {"apply_damage", "check_deaths", "handle_pause_input"}
      [] state = "Paused" -> {"handle_pause_input"}
      [] OTHER -> {}

\* cleanup_level on the entities with Health: the player is despawned
ExitHealth(state, h) ==
    IF state = "InGame" THEN [e \in {t \in DOMAIN h : t.kind # "player"} |-> h[e]] ELSE h

\* setup_dungeon and spawn_enemies_in_zones on the entities with Health
EnterHealth(state, h, b) ==
    IF state = "InGame"
    THEN [e \in DOMAIN h \cup {PlayerId(b), EnemyId(b)} |->
             IF e = PlayerId(b) THEN PlayerMaxHealth
             ELSE IF e = EnemyId(b) THEN EnemyMaxHealth
             ELSE h[e]]
    ELSE h

\* New Game has been pressed in the main menu
InitCombat ==
    /\ IdleResolve /\ IdleLoad /\ IdleBuild /\ palette_registry = EmptyRegistry
    /\ game_state = "MainMenu"
    /\ next_state = Some("InGame")
    /\ world = {} /\ builds = 0
    /\ enemy_files = {} /\ enemy_registry = {} /\ death_events = {}
    /\ health = <<>> /\ dead = {}
    /\ damage_events = NoEvents /\ death_log = NoEvents
    /\ ran = {} /\ input = NoInput /\ enemy = None

\* the start of a frame: Events::update, the input of the frame, and the
\* StateTransition schedule if a state is pending
BeginFrame ==
    /\ ran = Scheduled(game_state)
    /\ LET entered == IF next_state # None THEN Unwrap(next_state) ELSE game_state
           changes == next_state # None /\ entered # game_state
           b == IF changes /\ entered = "InGame" THEN builds + 1 ELSE builds
       IN  /\ b <= MaxBuilds
           /\ game_state' = entered
           /\ builds' = b
           /\ health' = IF changes
                        THEN EnterHealth(entered, ExitHealth(game_state, health), b)
                        ELSE health
           /\ dead' = IF changes /\ game_state = "InGame"
                      THEN {t \in dead : t.kind # "player"} ELSE dead
    /\ next_state' = None
    /\ damage_events' = DropExpired(UpdateEvents(damage_events))
    /\ death_log' = UpdateEvents(death_log)
    /\ input' \in [escape : BOOLEAN, block : BOOLEAN]
    /\ ran' = {}
    /\ UNCHANGED <<world, enemy_files, enemy_registry, death_events, enemy,
                   resolveVars, loadVars, buildVars>>

\* execute_attack or process_enemy_attack_hits: commands.send_event, on the
\* player or the enemy of the level, before the systems of CombatSet::Damage
SendDamage ==
    /\ game_state = "InGame"
    /\ ran \cap {"apply_damage", "check_deaths"} = {}
    /\ damage_events.sent < MaxDamageEvents
    /\ \E target \in DOMAIN health \cap {PlayerId(builds), EnemyId(builds)},
          amount \in DamageAmounts :
          damage_events' =
              [damage_events EXCEPT !.log = Append(@, [target |-> target, amount |-> amount,
                                                       age |-> 0]),
                                    !.sent = @ + 1]
    /\ UNCHANGED <<health, dead, death_log, ran, input, enemy,
                   gameVars, resolveVars, loadVars, buildVars>>

\* apply_damage
ApplyDamage ==
    /\ game_state = "InGame"
    /\ "apply_damage" \notin ran
    /\ LET out == apply_damage([health |-> health, died_this_frame |-> {}, deaths |-> <<>>],
                               Unread(damage_events), dead, input)
       IN  /\ health' = out.health
           /\ dead' = dead \cup out.died_this_frame
           /\ death_log' = SendAll(death_log, out.deaths)
    /\ damage_events' = MarkRead(damage_events)
    /\ ran' = ran \cup {"apply_damage"}
    /\ UNCHANGED <<input, enemy, gameVars, resolveVars, loadVars, buildVars>>

\* check_deaths
CombatCheckDeaths ==
    /\ game_state = "InGame"
    /\ "check_deaths" \notin ran
    /\ LET events == Unread(death_log)
           entities == {events[i].entity : i \in DOMAIN events}
           others == {e \in entities : e.kind \notin {"player", "enemy"}}
       IN  /\ next_state' = IF \E e \in entities : e.kind = "player" /\ e \in DOMAIN health
                            THEN Some("GameOver") ELSE next_state
           /\ health' = [e \in DOMAIN health \ others |-> health[e]]
    /\ death_log' = MarkRead(death_log)
    /\ ran' = ran \cup {"check_deaths"}
    /\ UNCHANGED <<dead, damage_events, input, enemy, game_state, world, builds, enemy_files,
                   enemy_registry, death_events, resolveVars, loadVars, buildVars>>

\* handle_pause_input
CombatHandlePauseInput ==
    /\ game_state \in {"InGame", "Paused"}
    /\ "handle_pause_input" \notin ran
    /\ next_state' = IF input.escape
                     THEN Some(IF game_state = "InGame" THEN "Paused" ELSE "InGame")
                     ELSE next_state
    /\ ran' = ran \cup {"handle_pause_input"}
    /\ UNCHANGED <<health, dead, damage_events, death_log, input, enemy, game_state, world,
                   builds, enemy_files, enemy_registry, death_events,
                   resolveVars, loadVars, buildVars>>

NextCombat ==
    \/ BeginFrame
    \/ SendDamage
    \/ ApplyDamage
    \/ CombatCheckDeaths
    \/ CombatHandlePauseInput

SpecCombat == InitCombat /\ [][NextCombat]_vars

(***************************************************************************)
(* One enemy by frames, while the game stays InGame and the player lives.  *)
(* The AI systems run chained; the animation systems run chained after     *)
(* ai_attack, in any order against handle_enemy_death and                  *)
(* despawn_dead_enemies.  The components that commands insert or remove    *)
(* are in place for the next system of a chain.  Times are in hundredths   *)
(* of a second, distances in hundredths of a unit.  A Timer is the time    *)
(* elapsed on it; every system of a frame sees the same Time::delta.       *)
(***************************************************************************)
MaxHits == 2
FrameDelta == 50

\* EnemyStats::default()
DetectionRange == 800
AttackRange == 200
AttackCooldown == 150

\* AttackTimer::default(), DeathTimer::default()
AttackTimerDuration == 150
DeathTimerDuration == 200

\* hurt_duration when the definition gives none
HurtDuration == 40

\* the horizontal distances of the player from the enemy
Distances == {100, 500, 1500}

\* the damage of a hit on the enemy
HitAmounts == {25, 50}

\* Timer::tick of a TimerMode::Once timer
Tick(elapsed, duration) == Min(elapsed + FrameDelta, duration)

\* Timer::finished
Finished(elapsed, duration) == elapsed >= duration

\* spawn_enemies_in_zones: the entity it spawns, with the scene loaded
SpawnedEnemy(animations, distance) ==
    [animations |-> animations,
     needs_setup |-> TRUE,
     has_animations |-> FALSE,
     ai_state |-> "Idle",
     ai_changed |-> TRUE,
     anim_state |-> "Idle",
     attack_ready |-> FALSE,
     oneshot |-> None,
     attack_timer |-> 0,
     death_timer |-> None,
     health |-> EnemyMaxHealth,
     unread_damage |-> FALSE,
     hits |-> 0,
     distance |-> distance,
     ai_pc |-> 0,
     anim_pc |-> 0]

ai_detection(e) ==
    IF e.ai_state # "Idle" THEN e
    ELSE IF e.distance <= DetectionRange
         THEN [e EXCEPT !.ai_state = "Chasing", !.ai_changed = TRUE]
         ELSE e

ai_chase(e) ==
    IF e.ai_state # "Chasing" THEN e
    ELSE IF e.distance <= AttackRange
         THEN [e EXCEPT !.ai_state = "Attacking", !.ai_changed = TRUE]
    ELSE IF 2 * e.distance > 3 * DetectionRange
         THEN [e EXCEPT !.ai_state = "Idle", !.ai_changed = TRUE]
    ELSE e

\* the query is Without<AttackReady>
ai_attack(e) ==
    IF e.attack_ready THEN e
    ELSE IF e.ai_state # "Attacking" THEN e
    ELSE LET ticked == Tick(e.attack_timer, AttackTimerDuration)
         IN  IF Finished(ticked, AttackTimerDuration)
             THEN [e EXCEPT !.attack_ready = TRUE,
                            !.attack_timer = 0,
                            !.ai_state = IF e.distance > AttackRange THEN "Chasing" ELSE @,
                            !.ai_changed = IF e.distance > AttackRange THEN TRUE ELSE @]
             ELSE [e EXCEPT !.attack_timer = ticked]

\* the query is Without<DeathTimer>
handle_enemy_death(e) ==
    IF IsSome(e.death_timer) THEN e
    ELSE IF is_dead(e.health) /\ e.ai_state # "Dying"
         THEN [e EXCEPT !.ai_state = "Dying", !.ai_changed = TRUE, !.death_timer = Some(0)]
         ELSE e

\* None when the entity is despawned
despawn_dead_enemies(e) ==
    IF ~IsSome(e.death_timer) THEN Some(e)
    ELSE LET ticked == Tick(Unwrap(e.death_timer), DeathTimerDuration)
         IN  IF Finished(ticked, DeathTimerDuration)
             THEN None
             ELSE Some([e EXCEPT !.death_timer = Some(ticked)])

\* the query is With<NeedsAnimationSetup>
setup_enemy_animations(e) ==
    IF ~e.needs_setup THEN e
    ELSE IF ~e.animations THEN [e EXCEPT !.needs_setup = FALSE]
    ELSE [e EXCEPT !.needs_setup = FALSE, !.has_animations = TRUE, !.anim_state = "Idle"]

\* the query is With<EnemyAnimations>, Without<OneShotTimer>
sync_animation_state(e) ==
    IF ~e.has_animations \/ IsSome(e.oneshot) THEN e
    ELSE IF e.anim_state = "Dying" THEN e
    ELSE LET new_state ==
                 CASE e.ai_state = "Idle" -> "Idle"
                   [] e.ai_state = "Chasing" -> "Walking"
                   [] e.ai_state = "Attacking" ->
                          IF e.distance <= AttackRange THEN "CombatIdle" ELSE "Walking"
                   [] e.ai_state = "Dying" -> "Dying"
         IN  IF e.anim_state # new_state /\ e.anim_state \notin {"Attacking", "Hurt"}
             THEN [e EXCEPT !.anim_state = new_state]
             ELSE e

\* the query is With<EnemyAnimations>, With<AttackReady>, Without<OneShotTimer>
trigger_attack_animation(e) ==
    IF ~e.has_animations \/ ~e.attack_ready \/ IsSome(e.oneshot) THEN e
    ELSE IF e.ai_state # "Attacking" THEN [e EXCEPT !.attack_ready = FALSE]
    ELSE IF e.anim_state \in {"Attacking", "Hurt", "Dying"}
         THEN [e EXCEPT !.attack_ready = FALSE]
    ELSE [e EXCEPT !.anim_state = "Attacking",
                   !.attack_ready = FALSE,
                   !.oneshot = Some([elapsed |-> 0,
                                     duration |-> (AttackCooldown * 6) \div 10,
                                     return_to |-> "CombatIdle"])]

\* the query needs the AnimationState of the event's target
trigger_hurt_animation(e) ==
    IF ~e.unread_damage THEN e
    ELSE IF ~e.has_animations THEN [e EXCEPT !.unread_damage = FALSE]
    ELSE IF e.anim_state = "Dying" THEN [e EXCEPT !.unread_damage = FALSE]
    ELSE LET return_to == CASE e.anim_state = "Attacking" -> "CombatIdle"
                            [] e.anim_state = "Walking" -> "Walking"
                            [] OTHER -> "Idle"
         IN  [e EXCEPT !.unread_damage = FALSE,
                       !.anim_state = "Hurt",
                       !.oneshot = Some([elapsed |-> 0,
                                         duration |-> HurtDuration,
                                         return_to |-> return_to])]

\* the query is With<EnemyAnimations>, Changed<AiState>
trigger_death_animation(e) ==
    IF e.has_animations /\ e.ai_changed /\ e.ai_state = "Dying" /\ e.anim_state # "Dying"
    THEN [e EXCEPT !.anim_state = "Dying", !.ai_changed = FALSE]
    ELSE [e EXCEPT !.ai_changed = FALSE]

update_oneshot_timers(e) ==
    IF ~IsSome(e.oneshot) \/ ~e.has_animations THEN e
    ELSE LET timer == Unwrap(e.oneshot)
             ticked == Tick(timer.elapsed, timer.duration)
         IN  IF Finished(ticked, timer.duration)
             THEN [e EXCEPT !.anim_state = timer.return_to, !.oneshot = None]
             ELSE [e EXCEPT !.oneshot = Some([timer EXCEPT !.elapsed = ticked])]

\* a DamageEvent on the enemy and apply_damage on it
HitEnemy(e, amount) ==
    [e EXCEPT !.health = take_damage(@, amount),
              !.unread_damage = TRUE,
              !.hits = @ + 1]

\* the systems of the two chains, in their order
AiChain == <<"ai_detection", "ai_chase", "ai_attack", "handle_enemy_death",
             "despawn_dead_enemies">>
AnimationChain == <<"setup_enemy_animations", "sync_animation_state",
                    "trigger_attack_animation", "trigger_hurt_animation",
                    "trigger_death_animation", "update_oneshot_timers">>

\* the position of a system in its chain, counted from 0
Position(chain, system) == (CHOOSE i \in DOMAIN chain : chain[i] = system) - 1

\* the system is the next one of the AI chain
AiTurn(system) ==
    /\ enemy # None
    /\ Unwrap(enemy).ai_pc = Position(AiChain, system)

\* the system is the next one of the animation chain, which is after ai_attack
AnimationTurn(system) ==
    /\ enemy # None
    /\ Unwrap(enemy).ai_pc > Position(AiChain, "ai_attack")
    /\ Unwrap(enemy).anim_pc = Position(AnimationChain, system)

AiDone(e) == Some([e EXCEPT !.ai_pc = @ + 1])
AnimationDone(e) == Some([e EXCEPT !.anim_pc = @ + 1])

EnemyFrame == <<resolveVars, loadVars, gameVars, buildVars,
                health, dead, damage_events, death_log, ran, input>>

\* an enemy has been spawned in the level, the player is alive
InitEnemy ==
    /\ IdleResolve /\ IdleLoad /\ IdleBuild /\ palette_registry = EmptyRegistry
    /\ game_state = "InGame"
    /\ next_state = None
    /\ world = {} /\ builds = 1
    /\ enemy_files = {} /\ enemy_registry = {} /\ death_events = {}
    /\ health = <<>> /\ dead = {}
    /\ damage_events = NoEvents /\ death_log = NoEvents
    /\ ran = {} /\ input = NoInput
    /\ \E animations \in BOOLEAN, distance \in Distances :
          enemy = Some(SpawnedEnemy(animations, distance))

AiDetection ==
    /\ AiTurn("ai_detection")
    /\ enemy' = AiDone(ai_detection(Unwrap(enemy)))
    /\ UNCHANGED EnemyFrame

AiChase ==
    /\ AiTurn("ai_chase")
    /\ enemy' = AiDone(ai_chase(Unwrap(enemy)))
    /\ UNCHANGED EnemyFrame

AiAttack ==
    /\ AiTurn("ai_attack")
    /\ enemy' = AiDone(ai_attack(Unwrap(enemy)))
    /\ UNCHANGED EnemyFrame

HandleEnemyDeath ==
    /\ AiTurn("handle_enemy_death")
    /\ enemy' = AiDone(handle_enemy_death(Unwrap(enemy)))
    /\ UNCHANGED EnemyFrame

DespawnDeadEnemies ==
    /\ AiTurn("despawn_dead_enemies")
    /\ enemy' = IF despawn_dead_enemies(Unwrap(enemy)) = None THEN None
                ELSE AiDone(Unwrap(despawn_dead_enemies(Unwrap(enemy))))
    /\ UNCHANGED EnemyFrame

SetupEnemyAnimations ==
    /\ AnimationTurn("setup_enemy_animations")
    /\ enemy' = AnimationDone(setup_enemy_animations(Unwrap(enemy)))
    /\ UNCHANGED EnemyFrame

SyncAnimationState ==
    /\ AnimationTurn("sync_animation_state")
    /\ enemy' = AnimationDone(sync_animation_state(Unwrap(enemy)))
    /\ UNCHANGED EnemyFrame

TriggerAttackAnimation ==
    /\ AnimationTurn("trigger_attack_animation")
    /\ enemy' = AnimationDone(trigger_attack_animation(Unwrap(enemy)))
    /\ UNCHANGED EnemyFrame

TriggerHurtAnimation ==
    /\ AnimationTurn("trigger_hurt_animation")
    /\ enemy' = AnimationDone(trigger_hurt_animation(Unwrap(enemy)))
    /\ UNCHANGED EnemyFrame

TriggerDeathAnimation ==
    /\ AnimationTurn("trigger_death_animation")
    /\ enemy' = AnimationDone(trigger_death_animation(Unwrap(enemy)))
    /\ UNCHANGED EnemyFrame

UpdateOneshotTimers ==
    /\ AnimationTurn("update_oneshot_timers")
    /\ enemy' = AnimationDone(update_oneshot_timers(Unwrap(enemy)))
    /\ UNCHANGED EnemyFrame

\* the player's weapon hits the enemy
EnemyHit ==
    /\ enemy # None
    /\ Unwrap(enemy).hits < MaxHits
    /\ \E amount \in HitAmounts : enemy' = Some(HitEnemy(Unwrap(enemy), amount))
    /\ UNCHANGED EnemyFrame

\* every system of the frame has run: the next frame starts, the player
\* somewhere
EnemyNextFrame ==
    /\ enemy # None
    /\ Unwrap(enemy).ai_pc = Len(AiChain)
    /\ Unwrap(enemy).anim_pc = Len(AnimationChain)
    /\ \E distance \in Distances :
          enemy' = Some([Unwrap(enemy) EXCEPT !.distance = distance, !.ai_pc = 0, !.anim_pc = 0])
    /\ UNCHANGED EnemyFrame

EnemySystems ==
    \/ AiDetection
    \/ AiChase
    \/ AiAttack
    \/ HandleEnemyDeath
    \/ DespawnDeadEnemies
    \/ SetupEnemyAnimations
    \/ SyncAnimationState
    \/ TriggerAttackAnimation
    \/ TriggerHurtAnimation
    \/ TriggerDeathAnimation
    \/ UpdateOneshotTimers
    \/ EnemyNextFrame

NextEnemy ==
    \/ EnemySystems
    \/ EnemyHit

SpecEnemy == InitEnemy /\ [][NextEnemy]_vars

\* the schedule runs every system of every frame, and frame follows frame
SpecEnemyFair == SpecEnemy /\ WF_vars(EnemySystems)

(***************************************************************************)
(* The level builder (world/builder.rs, world/geometry.rs,                 *)
(* world/spawning.rs).  A Vec3 is <<x, y, z>>.  What commands.spawn is     *)
(* given is recorded in order, each entry with the cell whose iteration    *)
(* of the tile loop spawned it (None outside the loop).  v / 2.0 is        *)
(* v \div 2: the lengths of the inputs are even numbers of hundredths.     *)
(***************************************************************************)
WallThickness == 20

Half(v) == v \div 2

\* the keys of MaterialRegistry::new
Materials == {"stone", "stone_wall", "wood", "metal"}
CeilingMaterials == {"ceiling", "stone_ceiling", "wood_ceiling", "skylight"}

\* MaterialRegistry::get_floor
MaterialRegistry_get_floor(material_name) ==
    IF material_name \in Materials THEN material_name ELSE "stone"

\* MaterialRegistry::get_wall
MaterialRegistry_get_wall(material_name) ==
    IF (material_name \o "_wall") \in Materials THEN material_name \o "_wall"
    ELSE IF material_name \in Materials THEN material_name
    ELSE "stone_wall"

\* MaterialRegistry::get_ceiling
MaterialRegistry_get_ceiling(material_name) ==
    IF material_name \in CeilingMaterials THEN material_name ELSE "ceiling"

\* LevelDefinition::grid_to_world
grid_to_world(level, x, z) ==
    <<x * level.tile_size + Half(level.tile_size), 0, z * level.tile_size + Half(level.tile_size)>>

\* one commands.spawn((..., LevelGeometry)) of the builder
Spawn(what, cell, position, size, material) ==
    [what |-> what, cell |-> cell, pos |-> position, size |-> size, material |-> material,
     light |-> None, enemy_type |-> ""]

\* geo_tile.elevation; a ResolvedGeometryTile without the field lies at y = 0
Elevation(geo_tile) ==
    IF "elevation" \in DOMAIN geo_tile THEN geo_tile.elevation ELSE 0

\* a floor slab centred on the elevation of the tile
M_spawn_floor_tile_Centred(cell, world_pos, tile_size, geo_tile) ==
    <<Spawn("floor", cell,
            <<world_pos[1], Elevation(geo_tile), world_pos[3]>>,
            <<tile_size, geo_tile.floor_depth, tile_size>>,
            MaterialRegistry_get_floor(geo_tile.material))>>

\* spawn_floor_tile
spawn_floor_tile(cell, world_pos, tile_size, geo_tile) ==
    <<Spawn("floor", cell,
            <<world_pos[1], Elevation(geo_tile) - Half(geo_tile.floor_depth), world_pos[3]>>,
            <<tile_size, geo_tile.floor_depth, tile_size>>,
            MaterialRegistry_get_floor(geo_tile.material))>>

\* a ceiling slab centred on the ceiling height
M_spawn_ceiling_tile_Centred(cell, world_pos, tile_size, ceiling_tile) ==
    <<Spawn("ceiling", cell,
            <<world_pos[1], ceiling_tile.height, world_pos[3]>>,
            <<tile_size, ceiling_tile.thickness, tile_size>>,
            MaterialRegistry_get_ceiling(ceiling_tile.material))>>

\* spawn_ceiling_tile
spawn_ceiling_tile(cell, world_pos, tile_size, ceiling_tile) ==
    <<Spawn("ceiling", cell,
            <<world_pos[1], ceiling_tile.height + Half(ceiling_tile.thickness), world_pos[3]>>,
            <<tile_size, ceiling_tile.thickness, tile_size>>,
            MaterialRegistry_get_ceiling(ceiling_tile.material))>>

\* needs_wall as it was while Wall tiles were not solid cubes
M_needs_wall_AgainstWallToo(level, x, z) ==
    get_geometry(level, x, z).value[1].kind \in {"Void", "Wall"}

\* needs_wall
needs_wall(level, x, z) ==
    get_geometry(level, x, z).value[1].kind = "Void"

\* spawn_wall
spawn_wall(cell, material, position, size) == <<Spawn("wall", cell, position, size, material)>>

\* spawn_walls_for_tile: north, south, west, east
spawn_walls_for_tile(level, x, z, world_pos, tile_size, wall_thickness) ==
    LET current_tile == get_geometry(level, x, z).value[1]
        wall_height == current_tile.height
        wall_material == MaterialRegistry_get_wall(current_tile.material)
        half_tile == Half(tile_size)
        cell == Some(<<x, z>>)
    IN  (IF needs_wall(level, x, z - 1)
         THEN spawn_wall(cell, wall_material,
                         <<world_pos[1], Half(wall_height), world_pos[3] - half_tile>>,
                         <<tile_size, wall_height, wall_thickness>>)
         ELSE <<>>)
        \o
        (IF needs_wall(level, x, z + 1)
         THEN spawn_wall(cell, wall_material,
                         <<world_pos[1], Half(wall_height), world_pos[3] + half_tile>>,
                         <<tile_size, wall_height, wall_thickness>>)
         ELSE <<>>)
        \o
        (IF needs_wall(level, x - 1, z)
         THEN spawn_wall(cell, wall_material,
                         <<world_pos[1] - half_tile, Half(wall_height), world_pos[3]>>,
                         <<wall_thickness, wall_height, tile_size>>)
         ELSE <<>>)
        \o
        (IF needs_wall(level, x + 1, z)
         THEN spawn_wall(cell, wall_material,
                         <<world_pos[1] + half_tile, Half(wall_height), world_pos[3]>>,
                         <<wall_thickness, wall_height, tile_size>>)
         ELSE <<>>)

\* a wall cube with a floor slab under it
M_spawn_wall_cube_WithFloor(cell, world_pos, tile_size, geo_tile) ==
    <<Spawn("wall_cube", cell,
            <<world_pos[1], Half(geo_tile.height), world_pos[3]>>,
            <<tile_size, geo_tile.height, tile_size>>,
            MaterialRegistry_get_wall(geo_tile.material))>>
    \o spawn_floor_tile(cell, world_pos, tile_size, geo_tile)

\* spawn_wall_cube
spawn_wall_cube(cell, world_pos, tile_size, geo_tile) ==
    <<Spawn("wall_cube", cell,
            <<world_pos[1], Half(geo_tile.height), world_pos[3]>>,
            <<tile_size, geo_tile.height, tile_size>>,
            MaterialRegistry_get_wall(geo_tile.material))>>

\* spawn_pillar: pillar_size = tile_size * 0.4
spawn_pillar(cell, world_pos, tile_size, wall_height) ==
    LET pillar_size == (tile_size * 4) \div 10
    IN  <<Spawn("pillar", cell,
                <<world_pos[1], Half(wall_height), world_pos[3]>>,
                <<pillar_size, wall_height, pillar_size>>,
                "pillar")>>

\* spawn_light
spawn_light(cell, position, intensity, shadows, color, range) ==
    <<[Spawn("light", cell, position, <<0, 0, 0>>, "") EXCEPT
          !.light = Some([intensity |-> intensity, shadows |-> shadows,
                          color |-> color, range |-> range])]>>

\* the match on geo_tile.kind with the Doorway given walls like a Floor
M_GeometrySpawns_DoorwayWalls(level, x, z, world_pos, tile_size, wall_thickness) ==
    LET geo_tile == get_geometry(level, x, z).value[1]
        cell == Some(<<x, z>>)
    IN  CASE geo_tile.kind \in {"Floor", "Doorway"} ->
                spawn_floor_tile(cell, world_pos, tile_size, geo_tile)
                \o spawn_walls_for_tile(level, x, z, world_pos, tile_size, wall_thickness)
          [] geo_tile.kind = "Pillar" ->
                spawn_floor_tile(cell, world_pos, tile_size, geo_tile)
                \o spawn_pillar(cell, world_pos, tile_size, geo_tile.height)
                \o spawn_walls_for_tile(level, x, z, world_pos, tile_size, wall_thickness)
          [] geo_tile.kind = "Wall" -> spawn_wall_cube(cell, world_pos, tile_size, geo_tile)
          [] geo_tile.kind = "Void" -> <<>>

\* the match on geo_tile.kind with a floor slab under Void
M_GeometrySpawns_VoidFloor(level, x, z, world_pos, tile_size, wall_thickness) ==
    LET geo_tile == get_geometry(level, x, z).value[1]
        cell == Some(<<x, z>>)
    IN  CASE geo_tile.kind \in {"Floor", "Doorway"} ->
                spawn_floor_tile(cell, world_pos, tile_size, geo_tile)
                \o (IF geo_tile.kind = "Floor"
                    THEN spawn_walls_for_tile(level, x, z, world_pos, tile_size, wall_thickness)
                    ELSE <<>>)
          [] geo_tile.kind = "Pillar" ->
                spawn_floor_tile(cell, world_pos, tile_size, geo_tile)
                \o spawn_pillar(cell, world_pos, tile_size, geo_tile.height)
                \o spawn_walls_for_tile(level, x, z, world_pos, tile_size, wall_thickness)
          [] geo_tile.kind = "Wall" -> spawn_wall_cube(cell, world_pos, tile_size, geo_tile)
          [] geo_tile.kind = "Void" -> spawn_floor_tile(cell, world_pos, tile_size, geo_tile)

\* build_level_from_data: the match on geo_tile.kind
GeometrySpawns(level, x, z, world_pos, tile_size, wall_thickness) ==
    LET geo_tile == get_geometry(level, x, z).value[1]
        cell == Some(<<x, z>>)
    IN  CASE geo_tile.kind \in {"Floor", "Doorway"} ->
                spawn_floor_tile(cell, world_pos, tile_size, geo_tile)
                \o (IF geo_tile.kind = "Floor"
                    THEN spawn_walls_for_tile(level, x, z, world_pos, tile_size, wall_thickness)
                    ELSE <<>>)
          [] geo_tile.kind = "Pillar" ->
                spawn_floor_tile(cell, world_pos, tile_size, geo_tile)
                \o spawn_pillar(cell, world_pos, tile_size, geo_tile.height)
                \o spawn_walls_for_tile(level, x, z, world_pos, tile_size, wall_thickness)
          [] geo_tile.kind = "Wall" -> spawn_wall_cube(cell, world_pos, tile_size, geo_tile)
          [] geo_tile.kind = "Void" -> <<>>

\* the ambient loops with the lights left at floor level
M_AmbientSpawns_LightsOnFloor(cell, world_pos, ambient_tile) ==
    [i \in 1..Len(ambient_tile.lights) |->
        LET light_def == ambient_tile.lights[i]
        IN  spawn_light(cell, world_pos, light_def.intensity, light_def.shadows,
                        light_def.color, light_def.range)[1]]

\* build_level_from_data: the loops over the lights, particles and audio of
\* the ambient tile; particles and audio are only logged
AmbientSpawns(cell, world_pos, ambient_tile) ==
    [i \in 1..Len(ambient_tile.lights) |->
        LET light_def == ambient_tile.lights[i]
        IN  spawn_light(cell, <<world_pos[1], world_pos[2] + light_def.height, world_pos[3]>>,
                        light_def.intensity, light_def.shadows,
                        light_def.color, light_def.range)[1]]

\* the ceiling spawned only over tiles that have a floor
M_CeilingSpawns_OnlyOverFloor(level, x, z, world_pos, tile_size) ==
    LET ceiling == get_ceiling(level, x, z).value[1]
    IN  IF IsSome(ceiling) /\ has_floor(get_geometry(level, x, z).value[1].kind)
        THEN spawn_ceiling_tile(Some(<<x, z>>), world_pos, tile_size, Unwrap(ceiling))
        ELSE <<>>

\* build_level_from_data: if let Some(ceiling_tile) = level.get_ceiling(x, z)
CeilingSpawns(level, x, z, world_pos, tile_size) ==
    LET ceiling == get_ceiling(level, x, z).value[1]
    IN  IF IsSome(ceiling)
        THEN spawn_ceiling_tile(Some(<<x, z>>), world_pos, tile_size, Unwrap(ceiling))
        ELSE <<>>

\* build_level_from_data: the body of the tile loop
ProcessTile(level, x, z) ==
    LET world_pos == grid_to_world(level, x, z)
    IN  GeometrySpawns(level, x, z, world_pos, level.tile_size, WallThickness)
        \o AmbientSpawns(Some(<<x, z>>), world_pos, get_ambient(level, x, z).value[1])
        \o CeilingSpawns(level, x, z, world_pos, level.tile_size)

\* build_level_from_data: for z in 0..height { for x in 0..width { .. } },
\* from the k-th cell in that order on
RECURSIVE ProcessTiles(_, _)
ProcessTiles(level, k) ==
    IF level.width = 0 \/ k >= level.width * level.height THEN <<>>
    ELSE ProcessTile(level, k % level.width, k \div level.width) \o ProcessTiles(level, k + 1)

\* one iteration that spawns the record whether or not its type is known
M_SpawnMonster_UnknownSpawns(level, spawn, registry) ==
    LET world_pos == grid_to_world(level, spawn.grid_pos[1], spawn.grid_pos[2])
    IN  <<[Spawn("enemy", None, <<world_pos[1], 0, world_pos[3]>>, <<0, 0, 0>>, "")
             EXCEPT !.enemy_type = spawn.enemy_type]>>

\* spawn_monsters_from_grid: one iteration of the loop
SpawnMonster(level, spawn, registry) ==
    IF spawn.enemy_type \notin registry THEN <<>>
    ELSE LET world_pos == grid_to_world(level, spawn.grid_pos[1], spawn.grid_pos[2])
         IN  <<[Spawn("enemy", None, <<world_pos[1], 0, world_pos[3]>>, <<0, 0, 0>>, "")
                  EXCEPT !.enemy_type = spawn.enemy_type]>>

\* spawn_monsters_from_grid
RECURSIVE spawn_monsters_from_grid(_, _, _)
spawn_monsters_from_grid(level, monster_spawns, registry) ==
    IF monster_spawns = <<>> THEN <<>>
    ELSE SpawnMonster(level, Head(monster_spawns), registry)
         \o spawn_monsters_from_grid(level, Tail(monster_spawns), registry)

\* spawn_sky_sphere
spawn_sky_sphere(center) == <<Spawn("sky_sphere", None, center, <<0, 0, 0>>, "sky")>>

\* build_level_from_data: what it hands to commands, in order
build_level_from_data(level, registry) ==
    <<Spawn("insert_resource AmbientLight", None, <<0, 0, 0>>, <<0, 0, 0>>, ""),
      Spawn("directional_light", None, <<0, 0, 0>>, <<0, 0, 0>>, "")>>
    \o spawn_sky_sphere(<<Half(level.width * level.tile_size), 0,
                          Half(level.height * level.tile_size)>>)
    \o ProcessTiles(level, 0)
    \o spawn_monsters_from_grid(level, level.monster_spawns, registry)

(***************************************************************************)
(* Inputs of the builder: resolved levels whose cells run through a cycle  *)
(* of geometry tiles in which every kind is followed by every kind, so     *)
(* that every pair of neighbouring kinds occurs, combined with every       *)
(* ambient tile and every ceiling tile.                                    *)
(***************************************************************************)
KindCycle ==
    <<"Floor", "Floor", "Wall", "Floor", "Pillar", "Floor", "Doorway", "Floor", "Void",
      "Wall", "Wall", "Pillar", "Wall", "Doorway", "Wall", "Void",
      "Pillar", "Pillar", "Doorway", "Pillar", "Void",
      "Doorway", "Doorway", "Void", "Void">>

MaterialCycle == <<"stone", "wood", "metal", "marble">>
HeightCycle == <<400, 300, 260>>
FloorDepthCycle == <<50, 20>>
ElevationCycle == <<0, 100, 40>>

Cyclic(cycle, i) == cycle[(i % Len(cycle)) + 1]

\* the two revisions of ResolvedGeometryTile: data.rs has no elevation,
\* geometry.rs reads one
Revisions == {"data.rs", "geometry.rs"}

GeometryTileAt(i, revision) ==
    LET tile == [kind |-> Cyclic(KindCycle, i),
                 material |-> Cyclic(MaterialCycle, i),
                 height |-> Cyclic(HeightCycle, i),
                 floor_depth |-> Cyclic(FloorDepthCycle, i)]
    IN  IF revision = "data.rs" THEN tile
        ELSE [f \in DOMAIN tile \cup {"elevation"} |->
                 IF f = "elevation" THEN Cyclic(ElevationCycle, i) ELSE tile[f]]

AmbientCycle ==
    <<DefaultAmbientTile,
      AmbDef(<<Light(250, 30000)>>, <<>>, <<>>),
      AmbDef(<<Light(100, 10000), Light(300, 20000)>>, <<>>, <<>>),
      AmbDef(<<Light(200, 5000)>>, <<Particle("dust", 150)>>, <<Audio("wind")>>),
      AmbDef(<<>>, <<Particle("smoke", 50), Particle("dust", 250)>>, <<Audio("drip")>>)>>

CeilingCycle ==
    <<None,
      Some([material |-> "ceiling", height |-> 450, thickness |-> 30]),
      Some([material |-> "wood_ceiling", height |-> 300, thickness |-> 20])>>

TileSizeCycle == <<200, 400>>

BuilderSizes == {<<0, 0>>} \cup ((1..MaxW) \X (1..MaxH))

MonsterSpawn(x, z, enemy_type) == [grid_pos |-> <<x, z>>, enemy_type |-> enemy_type]

\* monster spawn lists as from_raw produces them: row-major, inside the grid
MonsterSpawnCycle(w, h) ==
    IF w = 0 THEN << <<>> >>
    ELSE << <<>>,
            <<MonsterSpawn(0, 0, "orc")>>,
            <<MonsterSpawn(0, 0, "bat"), MonsterSpawn(w - 1, h - 1, "orc")>>,
            <<MonsterSpawn(0, 0, "orc"), MonsterSpawn(w - 1, 0, "bat"),
              MonsterSpawn(w - 1, h - 1, "goblin")>>,
            <<MonsterSpawn(w - 1, 0, "bat")>> >>

RegistryCycle == <<{"orc", "goblin"}, {"orc"}>>

\* the level of size w x h whose geometry starts the cycle at seed, row by
\* row or (transposed) column by column, and whose ambient and ceiling
\* tiles start theirs at decor
BuilderLevel(w, h, seed, transposed, decor, revision) ==
    [name |-> "level",
     tile_size |-> Cyclic(TileSizeCycle, decor),
     default_wall_height |-> 400,
     default_floor_depth |-> 50,
     default_ceiling_height |-> 450,
     default_ceiling_thickness |-> 30,
     global_ambient |-> [color |-> <<40, 40, 50>>, brightness |-> 3000],
     player_start |-> <<0, 0>>,
     width |-> w,
     height |-> h,
     geometry |-> [z \in 1..h |-> [x \in 1..w |->
                     GeometryTileAt(seed + (IF transposed THEN (x - 1) * h + (z - 1)
                                                          ELSE (z - 1) * w + (x - 1)),
                                    revision)]],
     ambient |-> [z \in 1..h |-> [x \in 1..w |->
                     Cyclic(AmbientCycle, decor + (z - 1) * w + (x - 1))]],
     ceiling |-> [z \in 1..h |-> [x \in 1..w |->
                     Cyclic(CeilingCycle, decor + (z - 1) * w + (x - 1))]],
     monster_spawns |-> Cyclic(MonsterSpawnCycle(w, h), decor),
     spawn_zones |-> <<>>]

InitBuild ==
    /\ IdleResolve /\ IdleLoad /\ IdleGame /\ palette_registry = EmptyRegistry
    /\ prefab = <<>>
    /\ spawned = None
    /\ \E size \in BuilderSizes,
          seed \in 0..(Len(KindCycle) - 1),
          transposed \in BOOLEAN,
          decor \in 0..(Len(AmbientCycle) * Len(CeilingCycle) - 1),
          revision \in Revisions :
          /\ builder_level = BuilderLevel(size[1], size[2], seed, transposed, decor, revision)
          /\ builder_registry = Cyclic(RegistryCycle, decor)

\* build_level_from_data runs on the level
BuildLevelFromData ==
    /\ spawned = None
    /\ builder_level # <<>>
    /\ spawned' = Some(build_level_from_data(builder_level, builder_registry))
    /\ UNCHANGED <<builder_level, builder_registry, prefab, resolveVars, loadVars, gameVars, combatVars>>

NextBuild == BuildLevelFromData

SpecBuild == InitBuild /\ [][NextBuild]_vars

(***************************************************************************)
(* Stair prefabs (world/prefabs.rs).  A quotient of two lengths is kept    *)
(* exact as a fraction <<numerator, denominator>> with a positive          *)
(* denominator; the rotation is a whole number of quarter turns, in        *)
(* degrees.                                                                *)
(***************************************************************************)
StepHeight == 35

Frac(n, d) == <<n, d>>

\* (height_diff / step_height).floor() as i32
M_NumSteps_Floor(height_diff, step_height) == height_diff \div step_height

\* (height_diff / step_height).ceil() as i32
NumSteps(height_diff, step_height) == -((-height_diff) \div step_height)

\* every step as high as the largest step allowed
M_ActualStepHeight_Fixed(height_diff, num_steps) == Frac(StepHeight, 1)

\* height_diff / num_steps as f32
ActualStepHeight(height_diff, num_steps) == Frac(height_diff, num_steps)

\* sin and cos of prefab.rotation.to_radians()
Sin(degrees) == CASE degrees % 360 = 90 -> 1 [] degrees % 360 = 270 -> -1 [] OTHER -> 0
Cos(degrees) == CASE degrees % 360 = 0 -> 1 [] degrees % 360 = 180 -> -1 [] OTHER -> 0

\* spawn_step_stairs: the i-th step
StepBlock(p, tile_size, material, num_steps, rise, i) ==
    LET length_tiles == UnwrapOr(p.length, 1)
        total_length == length_tiles * tile_size
        step_depth == Frac(total_length, num_steps)
        base_x == p.position[1] * tile_size + Half(tile_size)
        base_z == p.position[2] * tile_size + Half(tile_size)
        \* (i + 0.5) * step_depth - total_length / 2.0, over 2 * num_steps
        local_offset == (2 * i + 1) * total_length - num_steps * total_length
        step_y == Frac(2 * rise[2] * p.from_elevation + (2 * i + 1) * rise[1], 2 * rise[2])
    IN  [Spawn("step", None,
               <<Frac(2 * num_steps * base_x + local_offset * Sin(p.rotation), 2 * num_steps),
                 step_y,
                 Frac(2 * num_steps * base_z + local_offset * Cos(p.rotation), 2 * num_steps)>>,
               <<Frac(tile_size, 1), rise, step_depth>>,
               material)
         EXCEPT !.enemy_type = ""]

\* spawn_step_stairs
spawn_step_stairs(p, tile_size, material) ==
    LET height_diff == p.to_elevation - p.from_elevation
        num_steps == NumSteps(height_diff, StepHeight)
    IN  IF num_steps <= 0 THEN <<>>
        ELSE LET actual_step_height == ActualStepHeight(height_diff, num_steps)
             IN  [k \in 1..num_steps |->
                     StepBlock(p, tile_size, material, num_steps, actual_step_height, k - 1)]

\* spawn_prefab
spawn_prefab(p, tile_size, stair_material) ==
    CASE p.kind = "StepStairs" -> spawn_step_stairs(p, tile_size, stair_material)

FromElevations == {-70, 0, 35, 100, 140}
ToElevations == {-70, 0, 1, 34, 35, 36, 70, 100, 105, 140, 141, 245, 300}

PrefabInstance(position, rotation, from_elevation, to_elevation, length) ==
    [kind |-> "StepStairs", position |-> position, rotation |-> rotation,
     from_elevation |-> from_elevation, to_elevation |-> to_elevation, length |-> length]

InitStairs ==
    /\ IdleResolve /\ IdleLoad /\ IdleGame /\ palette_registry = EmptyRegistry
    /\ builder_level = <<>>
    /\ builder_registry = {}
    /\ spawned = None
    /\ \E position \in {<<0, 0>>, <<2, 1>>},
          rotation \in {0, 90, 180, 270},
          from_elevation \in FromElevations,
          to_elevation \in ToElevations,
          length \in {None} \cup {Some(l) : l \in 1..MaxW} :
          prefab = PrefabInstance(position, rotation, from_elevation, to_elevation, length)

\* spawn_prefab runs on the prefab
SpawnPrefab ==
    /\ spawned = None
    /\ prefab # <<>>
    /\ \E tile_size \in {200, 400} :
          spawned' = Some(spawn_prefab(prefab, tile_size, "stone"))
    /\ UNCHANGED <<builder_level, builder_registry, prefab, resolveVars, loadVars, gameVars, combatVars>>

NextStairs == SpawnPrefab

SpecStairs == InitStairs /\ [][NextStairs]_vars

(***************************************************************************)
(* Vocabulary of the properties of from_raw.                               *)
(***************************************************************************)
Resolved == pc = "resolved"
ResolvedOk == pc = "resolved" /\ result.tag = "Ok"
Level == Unwrap(result.level)

\* the length of the longest row of an authored grid, 0 for no rows
LongestRow(rows) ==
    CHOOSE n \in 0..(MaxW + 1) :
        /\ \A i \in DOMAIN rows : Len(rows[i]) <= n
        /\ (rows = <<>> \/ \E i \in DOMAIN rows : Len(rows[i]) = n)

\* an authored grid differs from the geometry grid in row count or in width
Differs(rows) == Len(rows) # Len(raw.geometry) \/ LongestRow(rows) # LongestRow(raw.geometry)

SomeLayerDiffers ==
    \/ Differs(raw.ambient)
    \/ (raw.monsters # <<>> /\ Differs(raw.monsters))
    \/ (raw.ceiling # <<>> /\ Differs(raw.ceiling))

\* the cells of an authored grid, as <<column, row>>, both 0-based
Cells(rows) == {c \in (0..MaxW) \X (0..MaxH) : c[2] < Len(rows) /\ c[1] < Len(rows[c[2] + 1])}

CharAt(rows, cell) == rows[cell[2] + 1][cell[1] + 1]

\* the cells of the resolved grids
LevelCells == {c \in (0..MaxW) \X (0..MaxH) : c[1] < Level.width /\ c[2] < Level.height}

\* cell c of the level lies beyond the authored row of the grid
Padded(rows, c) == c[1] >= Len(rows[c[2] + 1])

\* C1: from_raw returns an error and no level model whenever the ambient
\* grid, or a non-empty monster grid, or a non-empty ceiling grid differs
\* from the geometry grid in row count or in width (longest row).
C1_MismatchIsRejected ==
    (Resolved /\ SomeLayerDiffers) => (result.tag = "Err" /\ result.level = None)

\* a monster grid one row shorter than the geometry grid, of the same width,
\* beside a matching ambient grid, has been rejected
C1_Witness ==
    /\ Resolved
    /\ ~Differs(raw.ambient)
    /\ Len(raw.monsters) = MaxH - 1 /\ Len(raw.geometry) = MaxH
    /\ raw.monsters # <<>>
    /\ LongestRow(raw.monsters) = LongestRow(raw.geometry)
    /\ result.tag = "Err"

\* C2: in every model from_raw returns, the geometry, ambient and ceiling
\* grids have exactly height rows of exactly width cells each, and the
\* cells beyond an authored row hold the layer default: Void geometry,
\* empty ambient, no ceiling.
C2_GridsAreFullSize ==
    ResolvedOk =>
        /\ Level.height = Len(raw.geometry)
        /\ Level.width = LongestRow(raw.geometry)
        /\ \A g \in {Level.geometry, Level.ambient, Level.ceiling} :
              /\ Len(g) = Level.height
              /\ \A z \in 1..Level.height : Len(g[z]) = Level.width
        /\ \A c \in LevelCells :
              /\ Padded(raw.geometry, c) => Level.geometry[c[2] + 1][c[1] + 1].kind = "Void"
              /\ Padded(raw.ambient, c) =>
                    Level.ambient[c[2] + 1][c[1] + 1] =
                        [lights |-> <<>>, particles |-> <<>>, audio |-> <<>>]
              /\ (raw.ceiling # <<>> /\ Padded(raw.ceiling, c)) =>
                    Level.ceiling[c[2] + 1][c[1] + 1] = None
              /\ (raw.ceiling = <<>> /\ Padded(raw.geometry, c)) =>
                    Level.ceiling[c[2] + 1][c[1] + 1] = None

\* a level resolved whose geometry, ambient and ceiling grids each have a
\* row shorter than the master width
C2_Witness ==
    /\ ResolvedOk
    /\ Level.width = MaxW
    /\ \E c \in LevelCells : Padded(raw.geometry, c)
    /\ \E c \in LevelCells : Padded(raw.ambient, c)
    /\ raw.ceiling # <<>> /\ \E c \in LevelCells : Padded(raw.ceiling, c)

\* the level with the named catalog of one layer struck out
WithoutFile(r, layer) ==
    CASE layer = "geometry" -> [r EXCEPT !.geometry_palette_file = None]
      [] layer = "ambient" -> [r EXCEPT !.ambient_palette_file = None]
      [] layer = "monster" -> [r EXCEPT !.monster_palette_file = None]
      [] layer = "ceiling" -> [r EXCEPT !.ceiling_palette_file = None]

FileOf(r, layer) ==
    CASE layer = "geometry" -> r.geometry_palette_file
      [] layer = "ambient" -> r.ambient_palette_file
      [] layer = "monster" -> r.monster_palette_file
      [] layer = "ceiling" -> r.ceiling_palette_file

CatalogOf(reg, layer) ==
    CASE layer = "geometry" -> reg.geometry
      [] layer = "ambient" -> reg.ambient
      [] layer = "monster" -> reg.monster
      [] layer = "ceiling" -> reg.ceiling

GridOf(r, layer) ==
    CASE layer = "geometry" -> r.geometry
      [] layer = "ambient" -> r.ambient
      [] layer = "monster" -> r.monsters
      [] layer = "ceiling" -> r.ceiling

\* the level names, for the layer, a catalog the registry does not hold
NamesMissing(layer) ==
    /\ FileOf(raw, layer) # None
    /\ Unwrap(FileOf(raw, layer)) \notin DOMAIN CatalogOf(palette_registry, layer)

\* C3: for each of the four layers, when the level names an external
\* catalog that is absent from the PaletteRegistry, from_raw does not fail
\* on that account and resolves the layer against the inline catalog: the
\* outcome is the one of the same level naming no catalog for the layer,
\* and with a missing geometry catalog every authored cell whose character
\* the inline catalog defines has the inline kind ('#' gives Wall).
C3_MissingCatalogFallsBackToInline ==
    Resolved =>
        /\ \A layer \in Layers :
              NamesMissing(layer) => result = from_raw(WithoutFile(raw, layer), palette_registry)
        /\ (NamesMissing("geometry") /\ result.tag = "Ok") =>
              \A c \in Cells(raw.geometry) :
                 CharAt(raw.geometry, c) \in DOMAIN raw.geometry_palette =>
                    Level.geometry[c[2] + 1][c[1] + 1].kind =
                        raw.geometry_palette[CharAt(raw.geometry, c)].kind
        /\ ((\E layer \in Layers : NamesMissing(layer)) /\ ~SomeLayerDiffers)
              => result.tag = "Ok"

\* a level naming the missing geometry catalog "dungeon.ron" resolved, with
\* a '#' cell that is a Wall
C3_Witness ==
    /\ ResolvedOk
    /\ raw.geometry_palette_file = Some(MissingFile)
    /\ \A layer \in Layers : NamesMissing(layer)
    /\ \E c \in Cells(raw.geometry) :
          /\ CharAt(raw.geometry, c) = "#"
          /\ Level.geometry[c[2] + 1][c[1] + 1].kind = "Wall"

\* C4: a geometry character that is not in the effective geometry catalog
\* resolves to a Void tile and an ambient character that is not in the
\* effective ambient catalog to an ambient tile with no lights, particles
\* or audio; resolution fails for no grid content, only for a dimension
\* mismatch.
C4_UnknownCharactersDefault ==
    Resolved =>
        /\ result.tag = "Err" => SomeLayerDiffers
        /\ result.tag = "Ok" =>
              /\ \A c \in Cells(raw.geometry) :
                    CharAt(raw.geometry, c) \notin DOMAIN GeometryPaletteOf(raw, palette_registry)
                        => Level.geometry[c[2] + 1][c[1] + 1].kind = "Void"
              /\ \A c \in Cells(raw.ambient) :
                    CharAt(raw.ambient, c) \notin DOMAIN AmbientPaletteOf(raw, palette_registry)
                        => /\ Level.ambient[c[2] + 1][c[1] + 1].lights = <<>>
                           /\ Level.ambient[c[2] + 1][c[1] + 1].particles = <<>>
                           /\ Level.ambient[c[2] + 1][c[1] + 1].audio = <<>>

\* a level resolved that has a geometry character and a non-blank ambient
\* character outside their catalogs
C4_Witness ==
    /\ ResolvedOk
    /\ \E c \in Cells(raw.geometry) :
          CharAt(raw.geometry, c) \notin DOMAIN GeometryPaletteOf(raw, palette_registry)
    /\ \E c \in Cells(raw.ambient) :
          /\ CharAt(raw.ambient, c) = "?"
          /\ CharAt(raw.ambient, c) \notin DOMAIN AmbientPaletteOf(raw, palette_registry)

\* a non-blank monster character the effective monster catalog lacks
UnknownMonster(c) == ~(c = "." \/ c = " ") /\ c \notin DOMAIN MonsterPaletteOf(raw, palette_registry)

\* the authored level with every unknown monster character blanked out
UnknownMonstersBlanked ==
    [raw EXCEPT !.monsters =
        [z \in 1..Len(raw.monsters) |->
            [x \in 1..Len(raw.monsters[z]) |->
                IF UnknownMonster(raw.monsters[z][x]) THEN "." ELSE raw.monsters[z][x]]]]

Spawns == Level.monster_spawns

\* C5: a non-blank monster-grid character absent from the effective
\* monster catalog produces no spawn record for its cell, does not make
\* resolution fail, and does not change the records of the other cells:
\* the outcome is the one of the level with those characters blanked.
C5_UnknownMonsterIsDropped ==
    Resolved =>
        /\ result = from_raw(UnknownMonstersBlanked, palette_registry)
        /\ result.tag = "Err" => SomeLayerDiffers
        /\ result.tag = "Ok" =>
              \A c \in Cells(raw.monsters) :
                 UnknownMonster(CharAt(raw.monsters, c)) =>
                    \A i \in 1..Len(Spawns) : Spawns[i].grid_pos # c

\* a level resolved whose monster grid holds the unknown 'Z' and a known
\* character, and whose spawn list is not empty
C5_Witness ==
    /\ ResolvedOk
    /\ \E c \in Cells(raw.monsters) : CharAt(raw.monsters, c) = "Z"
    /\ Len(Spawns) >= 1

\* the cells of the monster grid that spawn: non-blank and in the catalog
SpawningCells ==
    {c \in Cells(raw.monsters) :
        /\ ~(CharAt(raw.monsters, c) = "." \/ CharAt(raw.monsters, c) = " ")
        /\ CharAt(raw.monsters, c) \in DOMAIN MonsterPaletteOf(raw, palette_registry)}

\* row-major order of two cells <<x, z>>
RowMajorBefore(a, b) == a[2] < b[2] \/ (a[2] = b[2] /\ a[1] < b[1])

\* C6: monster_spawns holds exactly one record for each monster-grid cell
\* whose character is non-blank and in the effective monster catalog, with
\* grid_pos = (column, row) and the catalog's creature type, in row-major
\* order: ascending row, ascending column within a row.
C6_SpawnsAreExactAndRowMajor ==
    ResolvedOk =>
        /\ {Spawns[i] : i \in 1..Len(Spawns)} =
              {[grid_pos |-> c,
                enemy_type |-> MonsterPaletteOf(raw, palette_registry)[CharAt(raw.monsters, c)]] :
                    c \in SpawningCells}
        /\ Len(Spawns) = Cardinality(SpawningCells)
        /\ \A i, j \in 1..Len(Spawns) :
              i < j => RowMajorBefore(Spawns[i].grid_pos, Spawns[j].grid_pos)

\* a level resolved with spawns in two columns of one row and in two rows
C6_Witness ==
    /\ ResolvedOk
    /\ \E i, j \in 1..Len(Spawns) :
          /\ Spawns[i].grid_pos[2] = Spawns[j].grid_pos[2]
          /\ Spawns[i].grid_pos[1] < Spawns[j].grid_pos[1]
    /\ \E i, j \in 1..Len(Spawns) : Spawns[i].grid_pos[2] < Spawns[j].grid_pos[2]

\* C7: when the level authors no ceiling grid, every cell of the ceiling
\* grid holds a ceiling tile with the level-wide default ceiling height and
\* thickness if the geometry tile of the cell is Floor, Pillar or Doorway,
\* and no ceiling for every Wall and Void cell, padded cells included.
C7_CeilingSynthesizedOverFloors ==
    (ResolvedOk /\ raw.ceiling = <<>>) =>
        \A c \in LevelCells :
            LET kind == Level.geometry[c[2] + 1][c[1] + 1].kind
                ceil == Level.ceiling[c[2] + 1][c[1] + 1]
            IN  /\ kind \in {"Floor", "Pillar", "Doorway"} =>
                      /\ ceil # None
                      /\ ceil[1].height = raw.default_ceiling_height
                      /\ ceil[1].thickness = raw.default_ceiling_thickness
                /\ kind \in {"Wall", "Void"} => ceil = None

\* a level without ceiling grid resolved, with a Doorway cell under a
\* ceiling and a padded cell without
C7_Witness ==
    /\ ResolvedOk /\ raw.ceiling = <<>>
    /\ \E c \in LevelCells :
          /\ Level.geometry[c[2] + 1][c[1] + 1].kind = "Doorway"
          /\ Level.ceiling[c[2] + 1][c[1] + 1] # None
    /\ \E c \in LevelCells :
          /\ Padded(raw.geometry, c)
          /\ Level.ceiling[c[2] + 1][c[1] + 1] = None

Probed == pc = "probed"
Q == probe[1]
OutsideGrid(x, z) == x < 0 \/ z < 0 \/ x >= Level.width \/ z >= Level.height

\* C8: on a resolved model, for every coordinate outside the grid
\* get_geometry returns a Void tile, get_ambient an ambient tile with no
\* entries and get_ceiling None, and for every coordinate inside each
\* returns the tile stored at row z, column x; no query panics.
C8_QueriesAreSafe ==
    Probed =>
        /\ ~Q.geometry.panic /\ ~Q.ambient.panic /\ ~Q.ceiling.panic
        /\ OutsideGrid(Q.x, Q.z) =>
              /\ Q.geometry.value[1].kind = "Void"
              /\ Q.ambient.value[1] = [lights |-> <<>>, particles |-> <<>>, audio |-> <<>>]
              /\ Q.ceiling.value[1] = None
        /\ ~OutsideGrid(Q.x, Q.z) =>
              /\ Q.geometry.value[1] = Level.geometry[Q.z + 1][Q.x + 1]
              /\ Q.ambient.value[1] = Level.ambient[Q.z + 1][Q.x + 1]
              /\ Q.ceiling.value[1] = Level.ceiling[Q.z + 1][Q.x + 1]

\* the column just beyond the last one of a level with a floor has been
\* queried, and so has a cell inside with a ceiling
C8_Witness ==
    /\ Probed
    /\ Level.width = MaxW /\ Level.height = MaxH
    /\ Q.x = Level.width /\ Q.z = 0
    /\ Q.geometry.value[1].kind = "Void"
    /\ Level.geometry[1][MaxW].kind = "Floor"

Loaded == level_registry # None
Registry == Unwrap(level_registry).levels
Files == levels_dir.entries

\* the file is a level file (.ron) that reads, parses and resolves
Registers(e) ==
    /\ Len(e.path) >= 2 /\ e.path[Len(e.path)] = "ron"
    /\ e.read = "ok" /\ e.parse = "ok"
    /\ from_raw(Unwrap(e.raw), palette_registry).tag = "Ok"

\* the level file fails: it cannot be read, parsed or resolved
Fails(e) == Len(e.path) >= 2 /\ e.path[Len(e.path)] = "ron" /\ ~Registers(e)

\* the registry key of a level file: its name without ".ron" and ".level"
KeyOf(e) ==
    IF Len(e.path) >= 3 /\ e.path[Len(e.path) - 1] = "level"
    THEN SubSeq(e.path, 1, Len(e.path) - 2)
    ELSE SubSeq(e.path, 1, Len(e.path) - 1)

\* C9: a level whose file cannot be read, parsed or resolved is never
\* inserted into the LevelRegistry, and its failure does not prevent the
\* other level files from being resolved and registered: the registry
\* holds, under each key, the level of the last file of that key that
\* resolves, and nothing else.
C9_FailedLevelsAreNotRegistered ==
    Loaded =>
        /\ DOMAIN Registry = {KeyOf(Files[i]) : i \in {j \in DOMAIN Files : Registers(Files[j])}}
        /\ \A k \in DOMAIN Registry :
              \E i \in DOMAIN Files :
                 /\ Registers(Files[i]) /\ KeyOf(Files[i]) = k
                 /\ Registry[k] = Unwrap(from_raw(Unwrap(Files[i].raw), palette_registry).level)
                 /\ \A j \in DOMAIN Files : (j > i /\ Registers(Files[j])) => KeyOf(Files[j]) # k
        /\ \A i \in DOMAIN Files :
              Fails(Files[i]) => \A k \in DOMAIN Registry : Registry[k].name # Files[i].path

\* a directory whose first file fails to resolve and whose second file is
\* registered
C9_Witness ==
    /\ Loaded
    /\ Len(Files) = MaxFiles
    /\ Fails(Files[MaxFiles - 1]) /\ Files[MaxFiles - 1].raw # None
    /\ Registers(Files[MaxFiles])
    /\ KeyOf(Files[MaxFiles]) \in DOMAIN Registry

\* the entities a build of the level spawns: level entities, enemies, player
BuiltEntities == {e \in world : e.markers \cap {"LevelGeometry", "Enemy", "Player"} # {}}

\* C10: after the game leaves InGame and enters it again, the world holds
\* exactly what a first entry builds: every level entity, every enemy and
\* the player of the previous stay have been despawned, so no entity of an
\* earlier build is left in a later one.
C10_ReentryRebuildsFromScratch ==
    game_state = "InGame" => \A e \in BuiltEntities : e.build = builds

(***************************************************************************)
(* Vocabulary of the properties of build_level_from_data.                  *)
(***************************************************************************)
Built == spawned # None /\ builder_level # <<>>
Out == Unwrap(spawned)

\* the cells of the level
BuilderCells == (0..(builder_level.width - 1)) \X (0..(builder_level.height - 1))

GeometryAt(c) == builder_level.geometry[c[2] + 1][c[1] + 1]
AmbientAt(c) == builder_level.ambient[c[2] + 1][c[1] + 1]
CeilingAt(c) == builder_level.ceiling[c[2] + 1][c[1] + 1]

\* the kind of a cell, a cell outside the grid counting as Void
KindAt(c) == IF c \in BuilderCells THEN GeometryAt(c).kind ELSE "Void"

Directions == {<<0, -1>>, <<0, 1>>, <<-1, 0>>, <<1, 0>>}
Neighbour(c, d) == <<c[1] + d[1], c[2] + d[2]>>

\* the world-space centre of a cell, and the middle of its boundary towards d
CentreX(c) == c[1] * builder_level.tile_size + builder_level.tile_size \div 2
CentreZ(c) == c[2] * builder_level.tile_size + builder_level.tile_size \div 2
BoundaryX(c, d) == CentreX(c) + d[1] * (builder_level.tile_size \div 2)
BoundaryZ(c, d) == CentreZ(c) + d[2] * (builder_level.tile_size \div 2)

\* what the iteration of cell c spawned, of the given sorts
SpawnedBy(c, sorts) == SelectSeq(Out, LAMBDA e : e.cell = Some(c) /\ e.what \in sorts)

\* the wall segments standing on the boundary of c towards d
WallsOn(c, d) ==
    SelectSeq(Out, LAMBDA e : /\ e.what = "wall"
                              /\ e.pos[1] = BoundaryX(c, d)
                              /\ e.pos[3] = BoundaryZ(c, d))

GeometrySorts == {"floor", "wall", "wall_cube", "pillar"}
AllSorts == GeometrySorts \cup {"light", "ceiling", "enemy", "sky_sphere", "directional_light",
                                "insert_resource AmbientLight"}

\* C11: for every Floor or Pillar cell and each of its four neighbours,
\* exactly one wall segment stands on the shared boundary if the neighbour
\* is Void (a cell outside the grid counting as Void), and none otherwise.
C11_WallsExactlyAgainstVoid ==
    Built =>
        \A c \in BuilderCells :
            KindAt(c) \in {"Floor", "Pillar"} =>
                /\ \A d \in Directions :
                      Len(WallsOn(c, d)) = (IF KindAt(Neighbour(c, d)) = "Void" THEN 1 ELSE 0)
                /\ Len(SpawnedBy(c, {"wall"}))
                      = Cardinality({d \in Directions : KindAt(Neighbour(c, d)) = "Void"})

\* a Floor cell next to a Void cell of the grid and next to a Wall cell
C11_Witness ==
    /\ Built
    /\ \E c \in BuilderCells :
          /\ KindAt(c) = "Floor"
          /\ \E d \in Directions :
                Neighbour(c, d) \in BuilderCells /\ KindAt(Neighbour(c, d)) = "Void"
          /\ \E d \in Directions : KindAt(Neighbour(c, d)) = "Wall"
          /\ Len(SpawnedBy(c, {"wall"})) > 0

\* C12 as stated: a Void cell spawns nothing at all, whatever its ambient
\* tile and its ceiling tile contain.
C12_VoidCellSpawnsNothing ==
    Built => \A c \in BuilderCells : KindAt(c) = "Void" => SpawnedBy(c, AllSorts) = <<>>

\* C12 amended: a Void cell spawns no floor slab, wall segment, wall block
\* or pillar; what it spawns is the lights of its ambient tile and the slab
\* of its ceiling tile.
C12_VoidCellSpawnsNoGeometry ==
    Built =>
        \A c \in BuilderCells :
            KindAt(c) = "Void" =>
                /\ SpawnedBy(c, GeometrySorts) = <<>>
                /\ Len(SpawnedBy(c, AllSorts))
                      = Len(AmbientAt(c).lights) + (IF IsSome(CeilingAt(c)) THEN 1 ELSE 0)

\* a Void cell with lights and a ceiling tile
C12_Witness ==
    /\ Built
    /\ \E c \in BuilderCells :
          /\ KindAt(c) = "Void"
          /\ AmbientAt(c).lights # <<>>
          /\ IsSome(CeilingAt(c))
          /\ Len(SpawnedBy(c, AllSorts)) > 1

C14_DoorwayHasNoWalls ==
    Built =>
        \A c \in BuilderCells :
            KindAt(c) = "Doorway" =>
                /\ Len(SpawnedBy(c, {"floor"})) = 1
                /\ SpawnedBy(c, {"wall"}) = <<>>

\* a Doorway next to a Void cell of the grid
C14_Witness ==
    /\ Built
    /\ \E c \in BuilderCells :
          /\ KindAt(c) = "Doorway"
          /\ \E d \in Directions :
                Neighbour(c, d) \in BuilderCells /\ KindAt(Neighbour(c, d)) = "Void"
          /\ \E d \in Directions : Neighbour(c, d) \notin BuilderCells
          /\ Len(SpawnedBy(c, {"floor"})) = 1

\* C15: a Wall cell spawns exactly one geometry primitive: a block of
\* tile_size x tile height x tile_size standing on y = 0 in the middle of
\* the cell; no floor slab and no wall segment.
C15_WallCellIsOneBlock ==
    Built =>
        \A c \in BuilderCells :
            KindAt(c) = "Wall" =>
                LET prims == SpawnedBy(c, GeometrySorts)
                IN  /\ Len(prims) = 1
                    /\ prims[1].what = "wall_cube"
                    /\ prims[1].size
                          = <<builder_level.tile_size, GeometryAt(c).height,
                              builder_level.tile_size>>
                    /\ prims[1].pos[1] = CentreX(c) /\ prims[1].pos[3] = CentreZ(c)
                    /\ 2 * prims[1].pos[2] = prims[1].size[2]

\* a Wall cell with a Floor or Void neighbour
C15_Witness ==
    /\ Built
    /\ \E c \in BuilderCells :
          /\ KindAt(c) = "Wall"
          /\ \E d \in Directions : KindAt(Neighbour(c, d)) = "Floor"
          /\ Len(SpawnedBy(c, {"wall_cube"})) = 1

\* C16: every cell spawns exactly one ceiling slab if its ceiling tile is
\* present and none if it is None, whatever its geometry kind; the bottom
\* face of the slab is at the height of the ceiling tile.
C16_CeilingFollowsCeilingTile ==
    Built =>
        \A c \in BuilderCells :
            LET slabs == SpawnedBy(c, {"ceiling"})
            IN  IF IsSome(CeilingAt(c))
                THEN /\ Len(slabs) = 1
                     /\ slabs[1].size[2] = Unwrap(CeilingAt(c)).thickness
                     /\ slabs[1].pos[1] = CentreX(c) /\ slabs[1].pos[3] = CentreZ(c)
                     /\ 2 * slabs[1].pos[2] - slabs[1].size[2] = 2 * Unwrap(CeilingAt(c)).height
                ELSE slabs = <<>>

\* a ceiling tile over a Void cell and a Floor cell under no ceiling tile
C16_Witness ==
    /\ Built
    /\ \E c \in BuilderCells :
          KindAt(c) = "Void" /\ IsSome(CeilingAt(c)) /\ Len(SpawnedBy(c, {"ceiling"})) = 1
    /\ \E c \in BuilderCells : KindAt(c) = "Floor" /\ CeilingAt(c) = None

\* C17: every cell spawns one light for each light entry of its ambient
\* tile, at the centre of the cell raised by the height of that entry; the
\* particle and audio entries spawn nothing.
C17_OneLightPerLightEntry ==
    Built =>
        \A c \in BuilderCells :
            LET lights == SpawnedBy(c, {"light"})
            IN  /\ Len(lights) = Len(AmbientAt(c).lights)
                /\ \A i \in 1..Len(lights) :
                      lights[i].pos = <<CentreX(c), AmbientAt(c).lights[i].height, CentreZ(c)>>
                /\ SpawnedBy(c, AllSorts \ (GeometrySorts \cup {"light", "ceiling"})) = <<>>
                /\ Len(SpawnedBy(c, AllSorts))
                      = Len(SpawnedBy(c, GeometrySorts)) + Len(AmbientAt(c).lights)
                        + Len(SpawnedBy(c, {"ceiling"}))

\* a cell with two lights and a cell with particles and audio but no light
C17_Witness ==
    /\ Built
    /\ \E c \in BuilderCells :
          Len(AmbientAt(c).lights) = 2 /\ Len(SpawnedBy(c, {"light"})) = 2
    /\ \E c \in BuilderCells :
          /\ AmbientAt(c).lights = <<>>
          /\ AmbientAt(c).particles # <<>>
          /\ AmbientAt(c).audio # <<>>

(***************************************************************************)
(* Vocabulary of the properties of spawn_step_stairs.                      *)
(***************************************************************************)
StairsDone == spawned # None /\ prefab # <<>>
Steps == Unwrap(spawned)
HeightDiff == prefab.to_elevation - prefab.from_elevation

\* comparisons of fractions with positive denominators
FracEq(a, b) == a[1] * b[2] = b[1] * a[2]
FracLess(a, b) == a[1] * b[2] < b[1] * a[2]
FracLeq(a, b) == a[1] * b[2] <= b[1] * a[2]
FracAdd(a, b) == <<a[1] * b[2] + b[1] * a[2], a[2] * b[2]>>
FracHalf(a) == <<a[1], 2 * a[2]>>
FracNeg(a) == <<-a[1], a[2]>>

\* the bottom and the top face of a step
StepBottom(e) == FracAdd(e.pos[2], FracNeg(FracHalf(e.size[2])))
StepTop(e) == FracAdd(e.pos[2], FracHalf(e.size[2]))

KnownSpawns ==
    SelectSeq(builder_level.monster_spawns, LAMBDA r : r.enemy_type \in builder_registry)

\* the enemies spawned, in spawn order
Enemies == SelectSeq(Out, LAMBDA e : e.what = "enemy")

\* C20: spawn_monsters_from_grid spawns exactly one enemy for each record
\* whose enemy type is in the EnemyRegistry, in list order, at the centre of
\* the cell of the record; a record of unknown type is skipped and the
\* records after it are still spawned.
C20_OneEnemyPerKnownRecord ==
    Built =>
        /\ Len(Enemies) = Len(KnownSpawns)
        /\ \A i \in 1..Len(Enemies) :
              /\ Enemies[i].enemy_type = KnownSpawns[i].enemy_type
              /\ Enemies[i].pos = <<CentreX(KnownSpawns[i].grid_pos), 0,
                                    CentreZ(KnownSpawns[i].grid_pos)>>

\* a record of unknown type between two records of known types
C20_Witness ==
    /\ Built
    /\ Len(builder_level.monster_spawns) = 3
    /\ builder_level.monster_spawns[2].enemy_type \notin builder_registry
    /\ builder_level.monster_spawns[3].enemy_type \in builder_registry
    /\ builder_level.monster_spawns[3].grid_pos # <<0, 0>>
    /\ Len(Enemies) = 2

(***************************************************************************)
(* Claims about the catalogs from_raw resolves against.                    *)
(***************************************************************************)
\* the level's own catalog of a layer
InlineOf(r, layer) ==
    CASE layer = "geometry" -> r.geometry_palette
      [] layer = "ambient" -> r.ambient_palette
      [] layer = "monster" -> r.monster_palette
      [] layer = "ceiling" -> r.ceiling_palette

\* the level names, for the layer, a catalog the registry holds
NamesFound(layer) ==
    /\ FileOf(raw, layer) # None
    /\ Unwrap(FileOf(raw, layer)) \in DOMAIN CatalogOf(palette_registry, layer)

\* the external catalog if one is named and found, the inline one otherwise
Catalog(layer) ==
    IF NamesFound(layer)
    THEN CatalogOf(palette_registry, layer)[Unwrap(FileOf(raw, layer))]
    ELSE InlineOf(raw, layer)

\* the characters only the inline catalog of the layer defines
InlineOnly(layer) == DOMAIN InlineOf(raw, layer) \ DOMAIN Catalog(layer)

EmptyAmbient == [lights |-> <<>>, particles |-> <<>>, audio |-> <<>>]

\* the spawn records of a cell of the monster grid
SpawnsAt(c) == {i \in 1..Len(Spawns) : Spawns[i].grid_pos = c}

\* C28: for each layer the effective catalog used by from_raw is exactly
\* the external catalog when the level names one that the PaletteRegistry
\* holds, and exactly the inline catalog otherwise: every authored cell
\* resolves from that one catalog alone, so a character only the inline
\* catalog defines resolves to the layer's unknown-character default
\* (Void, empty ambient, no spawn, default ceiling) whenever the named
\* external catalog is found.
C28_CatalogsAreNeverCombined ==
    ResolvedOk =>
        /\ \A c \in Cells(raw.geometry) :
              LET ch == CharAt(raw.geometry, c)
                  tile == Level.geometry[c[2] + 1][c[1] + 1]
                  cat == Catalog("geometry")
              IN  /\ ch \in DOMAIN cat =>
                        /\ tile.kind = cat[ch].kind
                        /\ tile.material = UnwrapOr(cat[ch].material, "stone")
                        /\ tile.height = UnwrapOr(cat[ch].height, raw.default_wall_height)
                        /\ tile.floor_depth = UnwrapOr(cat[ch].floor_depth, raw.default_floor_depth)
                  /\ ch \notin DOMAIN cat => tile.kind = "Void"
        /\ \A c \in Cells(raw.ambient) :
              LET ch == CharAt(raw.ambient, c)
                  tile == Level.ambient[c[2] + 1][c[1] + 1]
                  cat == Catalog("ambient")
              IN  /\ (ch \in DOMAIN cat /\ ch \notin {".", " "}) =>
                        /\ tile.lights = cat[ch].lights
                        /\ tile.particles = cat[ch].particles
                        /\ tile.audio = cat[ch].audio
                  /\ ch \notin DOMAIN cat => tile = EmptyAmbient
        /\ \A c \in Cells(raw.monsters) :
              LET ch == CharAt(raw.monsters, c)
                  cat == Catalog("monster")
              IN  /\ (ch \in DOMAIN cat /\ ch \notin {".", " "}) =>
                        /\ SpawnsAt(c) # {}
                        /\ \A i \in SpawnsAt(c) : Spawns[i].enemy_type = cat[ch]
                  /\ ch \notin DOMAIN cat => SpawnsAt(c) = {}
        /\ raw.ceiling # <<>> =>
              \A c \in Cells(raw.ceiling) :
                 LET ch == CharAt(raw.ceiling, c)
                     tile == Level.ceiling[c[2] + 1][c[1] + 1]
                     cat == Catalog("ceiling")
                 IN  /\ (ch \in DOMAIN cat /\ ch \notin {".", " "}) =>
                           tile = Some([material |-> UnwrapOr(cat[ch].material, "ceiling"),
                                        height |-> UnwrapOr(cat[ch].height, raw.default_ceiling_height),
                                        thickness |-> UnwrapOr(cat[ch].thickness,
                                                               raw.default_ceiling_thickness)])
                     /\ (ch \notin DOMAIN cat /\ ch \notin {".", " "}) =>
                           tile = Some([material |-> "ceiling",
                                        height |-> raw.default_ceiling_height,
                                        thickness |-> raw.default_ceiling_thickness])

\* a level naming found catalogs for all four layers resolved, with an
\* inline-only character in each authored grid: 'P' or 'D' a Void tile,
\* 'T' an empty ambient tile, 'o' without spawn, 'h' a default ceiling
C28_Witness ==
    /\ ResolvedOk
    /\ \A layer \in Layers : NamesFound(layer)
    /\ \E c \in Cells(raw.geometry) :
          /\ CharAt(raw.geometry, c) \in InlineOnly("geometry") \ {"."}
          /\ Level.geometry[c[2] + 1][c[1] + 1].kind = "Void"
    /\ \E c \in Cells(raw.ambient) :
          /\ CharAt(raw.ambient, c) = "T"
          /\ Level.ambient[c[2] + 1][c[1] + 1] = EmptyAmbient
    /\ \E c \in Cells(raw.monsters) : CharAt(raw.monsters, c) = "o" /\ SpawnsAt(c) = {}
    /\ raw.ceiling # <<>>
    /\ \E c \in Cells(raw.ceiling) :
          /\ CharAt(raw.ceiling, c) = "h"
          /\ Level.ceiling[c[2] + 1][c[1] + 1][1].material = "ceiling"

\* a layer's effective catalog defines an entry for the blank character ch
DefinesBlank(layer, ch) == ch \in {".", " "} /\ ch \in DOMAIN Catalog(layer)

\* C29: in the ambient, monster and ceiling layers the characters '.' and
\* ' ' always resolve to empty (no lights, particles or audio; no spawn
\* record; no ceiling) even when the effective catalog defines an entry
\* for them, whereas in the geometry layer '.' and ' ' are looked up in the
\* effective catalog like any other character: the catalog's tile when it
\* defines them, Void when it does not.
C29_BlanksAreEmptyExceptInGeometry ==
    ResolvedOk =>
        /\ \A c \in Cells(raw.ambient) :
              CharAt(raw.ambient, c) \in {".", " "} =>
                 Level.ambient[c[2] + 1][c[1] + 1] = EmptyAmbient
        /\ \A c \in Cells(raw.monsters) :
              CharAt(raw.monsters, c) \in {".", " "} => SpawnsAt(c) = {}
        /\ raw.ceiling # <<>> =>
              \A c \in Cells(raw.ceiling) :
                 CharAt(raw.ceiling, c) \in {".", " "} =>
                    Level.ceiling[c[2] + 1][c[1] + 1] = None
        /\ \A c \in Cells(raw.geometry) :
              LET ch == CharAt(raw.geometry, c)
                  tile == Level.geometry[c[2] + 1][c[1] + 1]
              IN  ch \in {".", " "} =>
                     IF ch \in DOMAIN Catalog("geometry")
                     THEN /\ tile.kind = Catalog("geometry")[ch].kind
                          /\ tile.material = UnwrapOr(Catalog("geometry")[ch].material, "stone")
                     ELSE tile.kind = "Void"

\* a level resolved in which the ambient, monster and ceiling grids each
\* hold a blank character their effective catalog defines, resolved to
\* empty, and the geometry grid holds ' ' resolved to the catalog's Floor
\* and '.' resolved to the catalog's wooden Floor
C29_Witness ==
    /\ ResolvedOk
    /\ \E c \in Cells(raw.ambient) :
          /\ DefinesBlank("ambient", CharAt(raw.ambient, c))
          /\ Level.ambient[c[2] + 1][c[1] + 1] = EmptyAmbient
    /\ \E c \in Cells(raw.monsters) :
          DefinesBlank("monster", CharAt(raw.monsters, c)) /\ SpawnsAt(c) = {}
    /\ raw.ceiling # <<>>
    /\ \E c \in Cells(raw.ceiling) :
          /\ DefinesBlank("ceiling", CharAt(raw.ceiling, c))
          /\ Level.ceiling[c[2] + 1][c[1] + 1] = None
    /\ \E c \in Cells(raw.geometry) :
          /\ CharAt(raw.geometry, c) = " "
          /\ Level.geometry[c[2] + 1][c[1] + 1].kind = "Floor"
    /\ \E c \in Cells(raw.geometry) :
          /\ CharAt(raw.geometry, c) = "."
          /\ Level.geometry[c[2] + 1][c[1] + 1].material = "wood"

\* the monster grid has a row shorter than the master width
ShortMonsterRow == \E z \in 1..Len(raw.monsters) : Len(raw.monsters[z]) < Level.width

\* C30: every record in the monster_spawns list of a resolved model has
\* grid_pos inside [0, width) x [0, height), and no two records share a
\* grid_pos, including when the monster grid has rows shorter than the
\* master width.
C30_SpawnsInsideGridAndDistinct ==
    ResolvedOk =>
        /\ \A i \in 1..Len(Spawns) :
              /\ 0 <= Spawns[i].grid_pos[1] /\ Spawns[i].grid_pos[1] < Level.width
              /\ 0 <= Spawns[i].grid_pos[2] /\ Spawns[i].grid_pos[2] < Level.height
        /\ \A i, j \in 1..Len(Spawns) :
              i # j => Spawns[i].grid_pos # Spawns[j].grid_pos

\* a level resolved whose monster grid has a row shorter than the master
\* width and spawns in the last column and in the last row
C30_Witness ==
    /\ ResolvedOk
    /\ ShortMonsterRow
    /\ Len(Spawns) >= 2
    /\ \E i \in 1..Len(Spawns) : Spawns[i].grid_pos[1] = Level.width - 1
    /\ \E i \in 1..Len(Spawns) : Spawns[i].grid_pos[2] = Level.height - 1

(***************************************************************************)
(* Claims about load_palette_files.                                        *)
(***************************************************************************)
PalettesLoaded == palette_resource # None

\* the files of the palettes directory
PaletteFiles ==
    IF palettes_dir.exists /\ palettes_dir.read_dir_ok
    THEN {palettes_dir.entries[i] : i \in DOMAIN palettes_dir.entries}
    ELSE {}

\* the palette files of the directory: those with the extension "ron"
RonFiles == {e \in PaletteFiles : e.path.parts[Len(e.path.parts)] = "ron"}

\* the name of a file, and the palette type the name declares, if any
NameOf(e) == JoinParts(e.path.parts)
CategoryWords == <<"ceiling", "geometry", "ambient", "monster">>
NameHas(e, word) == word \in NameWords[NameOf(e)]
Declares(e, category) ==
    \E i \in 1..4 :
        /\ CategoryWords[i] = category /\ NameHas(e, category)
        /\ \A j \in 1..(i - 1) : ~NameHas(e, CategoryWords[j])

\* the file cannot be read, or cannot be parsed as a palette of the type
\* its name declares, or as a palette of any type if it declares none
CannotBeReadOrParsed(e) ==
    \/ ~e.entry_ok \/ ~e.read_ok
    \/ \E category \in Layers : Declares(e, category) /\ category \notin e.parses
    \/ ((\A category \in Layers : ~Declares(e, category)) /\ e.parses = {})

\* the catalogs of the installed registry that hold the file's name
HoldersOf(e) ==
    {category \in Layers : NameOf(e) \in DOMAIN CatalogOf(Unwrap(palette_resource), category)}

\* every palette file among files that cannot be read or parsed is in no
\* catalog, every other one under its file name in exactly one catalog
StoredByName(files) ==
    \A e \in files :
        IF CannotBeReadOrParsed(e) THEN HoldersOf(e) = {} ELSE Cardinality(HoldersOf(e)) = 1

\* C21: load_palette_files always completes and installs a
\* PaletteRegistry: a palette file that cannot be read or parsed is stored
\* in no catalog, and every other file is still stored, under its file
\* name, in exactly one of the four category catalogs; the registry is not
\* modified after this load.
C21_PalettesStoredAndFrozen ==
    [][/\ ~PalettesLoaded => PalettesLoaded'
       /\ PalettesLoaded' => StoredByName(RonFiles)'
       /\ PalettesLoaded => palette_resource' = palette_resource]_vars

\* the files whose names are valid Unicode
UnicodeFiles == {e \in RonFiles : e.path.unicode}

\* the same of the files whose names are valid Unicode, whatever else the
\* directory holds
UnicodeNamedPalettesStored ==
    [][/\ ~PalettesLoaded => PalettesLoaded'
       /\ PalettesLoaded' => StoredByName(UnicodeFiles)'
       /\ PalettesLoaded => palette_resource' = palette_resource]_vars

\* a directory holding a well-formed and a malformed readable palette file,
\* both of valid names, has been loaded
UnicodeNamedPalettesStored_Witness ==
    /\ PalettesLoaded
    /\ \E e \in UnicodeFiles : ~CannotBeReadOrParsed(e) /\ e.parses = {"ambient", "ceiling"}
    /\ \E e \in UnicodeFiles : CannotBeReadOrParsed(e) /\ e.read_ok

(***************************************************************************)
(* Claims about pausing and about the death of the player.                 *)
(***************************************************************************)
\* the level entities, the enemies and the player of a world
GameEntities(w) == {e \in w : e.markers \cap {"LevelGeometry", "Enemy", "Player"} # {}}

\* C23: while the game is in the Paused state, entered from InGame by the
\* Escape key, the level entities, the enemies and the player that existed
\* at the moment of pausing still exist, and resuming returns to that same
\* world (same player, with the health it carries, same enemies) rather
\* than to a newly built one.
C23_PauseKeepsTheWorld ==
    [][/\ (game_state = "InGame" /\ game_state' = "Paused") =>
              GameEntities(world) \subseteq world'
       /\ (game_state = "Paused" /\ game_state' = "Paused") =>
              GameEntities(world') = GameEntities(world)
       /\ (game_state = "Paused" /\ game_state' = "InGame") =>
              (GameEntities(world') = GameEntities(world) /\ builds' = builds)]_vars

\* the player of the level has no health left
PlayerHealthIsZero ==
    /\ game_state = "InGame"
    /\ PlayerId(builds) \in DOMAIN health
    /\ health[PlayerId(builds)] = 0

\* C24: whenever the player's health reaches zero during gameplay, the next
\* game-state change is to GameOver and to no other state, under every
\* execution order of check_deaths and handle_pause_input in the frame.
C24_DeathLeadsToGameOver ==
    [][(PlayerHealthIsZero /\ game_state' # game_state) => game_state' = "GameOver"]_vars

\* the DeathEvents sent for an entity
DeathsOf(log, t) == Cardinality({i \in DOMAIN log : log[i].entity = t})

\* C25: over any sequence of DamageEvents in any number of frames,
\* apply_damage sends at most one DeathEvent for a given entity: none for a
\* further lethal event on that entity in the same frame, and none in any
\* later frame once the entity carries the Dead marker; a dead entity's
\* health is not reduced further in later frames.
C25_OneDeathEventPerEntity ==
    [][/\ \A t \in DOMAIN health \cup DOMAIN health' : DeathsOf(death_log.log, t)' <= 1
       /\ \A t \in dead :
             /\ DeathsOf(death_log.log, t)' = DeathsOf(death_log.log, t)
             /\ t \in DOMAIN health' => health'[t] = health[t]]_vars

\* an enemy took two lethal events in one frame and another one in the next
\* frame, apply_damage has read them all, and one DeathEvent was sent
C25_Witness ==
    \E t \in dead :
        /\ t.kind = "enemy"
        /\ "apply_damage" \in ran
        /\ damage_events.read = Len(damage_events.log)
        /\ Cardinality({i \in DOMAIN damage_events.log :
                           /\ damage_events.log[i].target = t
                           /\ damage_events.log[i].age = 1}) >= 2
        /\ \E i \in DOMAIN damage_events.log :
              damage_events.log[i].target = t /\ damage_events.log[i].age = 0
        /\ DeathsOf(death_log.log, t) = 1

(***************************************************************************)
(* Claims about the attack marker and the dying animation of an enemy.     *)
(***************************************************************************)
\* the enemy exists and carries AttackReady
HasAttackReady == enemy # None /\ Unwrap(enemy).attack_ready

\* C26: for every enemy, each AttackReady marker that ai_attack adds when
\* the attack timer finishes is eventually removed by the animation systems
\* while the game stays InGame, after which ai_attack processes that enemy's
\* attack timer and range check again (the enemy is in its query again).
C26_AttackReadyIsRemoved == HasAttackReady ~> ~HasAttackReady

\* the part of C26 that holds: the marker of an enemy with EnemyAnimations
\* is eventually removed
AttackReadyOfAnimatedIsRemoved ==
    (HasAttackReady /\ Unwrap(enemy).animations) ~> ~HasAttackReady

\* the enemy exists and its AnimationState is s
EnemyAnimationIs(s) ==
    /\ enemy # None
    /\ Unwrap(enemy).has_animations
    /\ Unwrap(enemy).anim_state = s

\* C27: once an enemy's AnimationState has become Dying, no system changes
\* it to any other value before the enemy is despawned, under any
\* interleaving of damage events, attack triggers and one-shot timer
\* expiries.
C27_DyingIsFinal ==
    [][(EnemyAnimationIs("Dying") /\ enemy' # None) => EnemyAnimationIs("Dying")']_vars

====
